---------------------------- MODULE Spec2Model ----------------------------
(***************************************************************************)
(* Moltcraft server: the authoritative world-synchronisation core.         *)
(*                                                                         *)
(* The model follows src/server/index.js (the revision with validation,    *)
(* lines 1-576) and the validation module (lines 1004-1230).               *)
(*                                                                         *)
(* JavaScript values are modelled as tagged records:                       *)
(*   [t |-> "undefined"], [t |-> "null"], [t |-> "NaN"], [t |-> "Infinity"]*)
(*   [t |-> "number", v |-> i, half |-> b]   the number i (+ 0.5 when b)   *)
(*   [t |-> "string", s |-> <<chars>>]       a string, one char per item   *)
(*   [t |-> "object", f |-> record]          an object and its fields      *)
(* A JavaScript object used as a map (world.blocks, world.agents) is a     *)
(* sequence of <<key, value>> pairs in insertion order.                    *)
(***************************************************************************)
EXTENDS Integers, Sequences, FiniteSets, TLC

\* ------------------------------------------------------------------------
\* JavaScript values
\* ------------------------------------------------------------------------

Undefined == [t |-> "undefined"]

Null == [t |-> "null"]

NaN == [t |-> "NaN"]

Infinity == [t |-> "Infinity"]

\* the integer i
Num(i) == [t |-> "number", v |-> i, half |-> FALSE]

\* the number i + 0.5
NumHalf(i) == [t |-> "number", v |-> i, half |-> TRUE]

Str(chars) == [t |-> "string", s |-> chars]

Obj(fields) == [t |-> "object", f |-> fields]

\* typeof v
TypeOf(v) ==
  CASE v.t = "undefined" -> "undefined"
    [] v.t = "null" -> "object"
    [] v.t \in {"number", "NaN", "Infinity"} -> "number"
    [] v.t = "string" -> "string"
    [] OTHER -> "object"

\* Number.isFinite(v)
IsFinite(v) == v.t = "number"

\* Number.isInteger(v)
IsInteger(v) == v.t = "number" /\ ~v.half

\* the value of `v || ...`'s test: false for undefined, null, NaN, 0 and ""
Truthy(v) ==
  CASE v.t \in {"undefined", "null", "NaN"} -> FALSE
    [] v.t = "number" -> ~(v.v = 0 /\ ~v.half)
    [] v.t = "string" -> v.s # <<>>
    [] OTHER -> TRUE

\* a || b
Or(a, b) == IF Truthy(a) THEN a ELSE b

\* obj.name for an object value; undefined when the property is missing
Get(obj, name) ==
  IF obj.t = "object" /\ name \in DOMAIN obj.f THEN obj.f[name] ELSE Undefined

\* reading a property of undefined or null throws a TypeError
CanRead(v) == v.t \notin {"undefined", "null"}

\* Math.abs(n) of a finite number
Abs(n) ==
  IF n.v >= 0 THEN n
  ELSE IF n.half THEN NumHalf(-n.v - 1)
  ELSE Num(-n.v)

\* n > c and n < c for a finite number n and an integer c
Gt(n, c) == IF n.half THEN n.v >= c ELSE n.v > c

Lt(n, c) == n.v < c

\* ------------------------------------------------------------------------
\* Strings
\* ------------------------------------------------------------------------

Digits == <<"0", "1", "2", "3", "4", "5", "6", "7", "8", "9">>

RECURSIVE NatToString(_)
NatToString(n) ==
  IF n < 10 THEN <<Digits[n + 1]>>
  ELSE NatToString(n \div 10) \o <<Digits[(n % 10) + 1]>>

\* `${n}` for a finite number n
NumberToString(n) ==
  LET neg == n.v < 0
      int == IF ~neg THEN n.v ELSE IF n.half THEN -n.v - 1 ELSE -n.v
  IN  (IF neg THEN <<"-">> ELSE <<>>) \o NatToString(int)
        \o (IF n.half THEN <<".", "5">> ELSE <<>>)

\* `${v}` for any value the model holds
ToStr(v) ==
  CASE v.t = "number" -> NumberToString(v)
    [] v.t = "string" -> v.s
    [] v.t = "undefined" -> <<"u", "n", "d", "e", "f", "i", "n", "e", "d">>
    [] v.t = "null" -> <<"n", "u", "l", "l">>
    [] v.t = "NaN" -> <<"N", "a", "N">>
    [] v.t = "Infinity" -> <<"I", "n", "f", "i", "n", "i", "t", "y">>
    [] OTHER -> <<"[", "o", "b", "j", "e", "c", "t", "]">>


\* str.split(sep): the pieces of chars between occurrences of the character sep
RECURSIVE SplitFrom(_, _, _, _)
SplitFrom(chars, sep, i, piece) ==
  IF i > Len(chars) THEN <<piece>>
  ELSE IF chars[i] = sep THEN <<piece>> \o SplitFrom(chars, sep, i + 1, <<>>)
  ELSE SplitFrom(chars, sep, i + 1, Append(piece, chars[i]))

Split(chars, sep) == SplitFrom(chars, sep, 1, <<>>)

DigitValue(c) == CHOOSE d \in 0..9 : Digits[d + 1] = c

IsDigit(c) == \E d \in 1..10 : Digits[d] = c

RECURSIVE ParseNat(_, _)
ParseNat(chars, acc) ==
  IF chars = <<>> THEN acc
  ELSE ParseNat(Tail(chars), 10 * acc + DigitValue(Head(chars)))

\* Number(str) for the strings the key codec meets: "" is 0, an optional
\* sign, decimal digits and an optional fraction; anything else is NaN.
\* The model's numbers are the integers and the half-integers, so the only
\* fractions it reads back are ".5" and ".0".
StringToNumber(chars) ==
  LET neg == chars # <<>> /\ Head(chars) = "-"
      body == IF neg THEN Tail(chars) ELSE chars
      parts == Split(body, ".")
      int == parts[1]
      frac == IF Len(parts) = 2 THEN parts[2] ELSE <<>>
      wellFormed == /\ Len(parts) <= 2
                    /\ int # <<>> \/ frac # <<>>
                    /\ \A i \in DOMAIN int : IsDigit(int[i])
                    /\ frac \in {<<>>, <<"0">>, <<"5">>}
      n == ParseNat(int, 0)
      half == frac = <<"5">>
  IN  IF chars = <<>> THEN Num(0)
      ELSE IF ~wellFormed THEN NaN
      ELSE IF ~neg THEN [t |-> "number", v |-> n, half |-> half]
      ELSE IF half THEN NumHalf(-n - 1)
      ELSE Num(-n)

LowerCase == {"a", "b", "c", "d", "e", "f", "g", "h", "i", "j", "k", "l", "m",
              "n", "o", "p", "q", "r", "s", "t", "u", "v", "w", "x", "y", "z"}

UpperCase == {"A", "B", "C", "D", "E", "F", "G", "H", "I", "J", "K", "L", "M",
              "N", "O", "P", "Q", "R", "S", "T", "U", "V", "W", "X", "Y", "Z"}

\* the characters the regular expression class \s matches (ASCII part)
WhiteSpace == {" ", "\t", "\n", "\r", "\f"}

HexDigits == {Digits[d] : d \in 1..10}
               \cup {"a", "b", "c", "d", "e", "f", "A", "B", "C", "D", "E", "F"}

\* ------------------------------------------------------------------------
\* Validation module (src/server/index.js, lines 1004-1230)
\* ------------------------------------------------------------------------

MAX_COORDINATE == 200

MIN_HEIGHT == -50

MAX_HEIGHT == 256

MAX_MESSAGE_LENGTH == 500

\* the result of a validator that returned true (did not throw)
Valid == "valid"

\* /^#[0-9A-Fa-f]{6}$/.test(chars)
COLOR_REGEX(chars) ==
  /\ Len(chars) = 7
  /\ chars[1] = "#"
  /\ \A i \in 2..7 : chars[i] \in HexDigits

\* validateCoordinates without its height check
validateCoordinates_noHeight(x, y, z) ==
  IF ~IsFinite(x) \/ ~IsFinite(y) \/ ~IsFinite(z)
    THEN "Coordinates must be finite numbers"
  ELSE IF Gt(Abs(x), MAX_COORDINATE) \/ Gt(Abs(z), MAX_COORDINATE)
    THEN "Coordinates must be within the maximum distance"
  ELSE IF ~IsInteger(x) \/ ~IsInteger(z)
    THEN "X and Z coordinates must be integers"
  ELSE Valid

\* validateCoordinates that excludes the boundary values
validateCoordinates_open(x, y, z) ==
  IF ~IsFinite(x) \/ ~IsFinite(y) \/ ~IsFinite(z)
    THEN "Coordinates must be finite numbers"
  ELSE IF Abs(x).v >= MAX_COORDINATE \/ Abs(z).v >= MAX_COORDINATE
    THEN "Coordinates must be within the maximum distance"
  ELSE IF y.v <= MIN_HEIGHT \/ y.v >= MAX_HEIGHT
    THEN "Height must be between MIN_HEIGHT and MAX_HEIGHT"
  ELSE IF ~IsInteger(x) \/ ~IsInteger(z)
    THEN "X and Z coordinates must be integers"
  ELSE Valid

\* validateCoordinates: Valid, or the message of the Error it throws
validateCoordinates(x, y, z) ==
  IF ~IsFinite(x) \/ ~IsFinite(y) \/ ~IsFinite(z)
    THEN "Coordinates must be finite numbers"
  ELSE IF Gt(Abs(x), MAX_COORDINATE) \/ Gt(Abs(z), MAX_COORDINATE)
    THEN "Coordinates must be within the maximum distance"
  ELSE IF Lt(y, MIN_HEIGHT) \/ Gt(y, MAX_HEIGHT)
    THEN "Height must be between MIN_HEIGHT and MAX_HEIGHT"
  ELSE IF ~IsInteger(x) \/ ~IsInteger(z)
    THEN "X and Z coordinates must be integers"
  ELSE Valid

validateColor(color) ==
  IF TypeOf(color) # "string" \/ ~COLOR_REGEX(color.s)
    THEN "Color must be in #RRGGBB format"
  ELSE Valid

validTypes ==
  << Str(<<"s", "t", "o", "n", "e">>), Str(<<"d", "i", "r", "t">>), Str(<<"g", "r", "a", "s", "s">>), Str(<<"w", "o", "o", "d">>), Str(<<"l", "e", "a", "v", "e", "s">>),
     Str(<<"g", "l", "a", "s", "s">>), Str(<<"b", "r", "i", "c", "k">>), Str(<<"s", "a", "n", "d">>), Str(<<"c", "o", "b", "b", "l", "e", "s", "t", "o", "n", "e">>),
     Str(<<"t", "o", "r", "c", "h">>), Str(<<"w", "a", "t", "e", "r">>), Str(<<"s", "n", "o", "w">>) >>

validateBlockType(type) ==
  IF ~(\E i \in DOMAIN validTypes : validTypes[i] = type)
    THEN "Invalid block type"
  ELSE Valid

\* /^[a-zA-Z0-9\s\-_]*$/.test(chars)
NAME_REGEX(chars) ==
  \A i \in DOMAIN chars :
    \/ chars[i] \in LowerCase \cup UpperCase
    \/ IsDigit(chars[i])
    \/ chars[i] \in WhiteSpace
    \/ chars[i] \in {"-", "_"}

validateAgentName(name) ==
  IF TypeOf(name) # "string" \/ Len(name.s) = 0
    THEN "Agent name must be a non-empty string"
  ELSE IF Len(name.s) > 50
    THEN "Agent name must be 50 characters or less"
  ELSE IF ~NAME_REGEX(name.s)
    THEN "Agent name can only contain alphanumeric characters, spaces, hyphens, and underscores"
  ELSE Valid

validateMessage(message) ==
  IF TypeOf(message) # "string" \/ Len(message.s) = 0
    THEN "Message must be a non-empty string"
  ELSE IF Len(message.s) > MAX_MESSAGE_LENGTH
    THEN "Message must be MAX_MESSAGE_LENGTH characters or less"
  ELSE Valid

agentMaxDistance == 500

\* validatePosition without its height check
validatePosition_noHeight(position) ==
  IF TypeOf(position) # "object" \/ position.t = "null"
    THEN "Position must be an object"
  ELSE IF \/ ~IsFinite(Get(position, "x"))
          \/ ~IsFinite(Get(position, "y"))
          \/ ~IsFinite(Get(position, "z"))
    THEN "Position coordinates must be finite numbers"
  ELSE IF \/ Gt(Abs(Get(position, "x")), agentMaxDistance)
          \/ Gt(Abs(Get(position, "z")), agentMaxDistance)
    THEN "Position must be within the agent maximum distance"
  ELSE Valid

validatePosition(position) ==
  IF TypeOf(position) # "object" \/ position.t = "null"
    THEN "Position must be an object"
  ELSE IF \/ ~IsFinite(Get(position, "x"))
          \/ ~IsFinite(Get(position, "y"))
          \/ ~IsFinite(Get(position, "z"))
    THEN "Position coordinates must be finite numbers"
  ELSE IF \/ Gt(Abs(Get(position, "x")), agentMaxDistance)
          \/ Gt(Abs(Get(position, "z")), agentMaxDistance)
    THEN "Position must be within the agent maximum distance"
  ELSE IF Lt(Get(position, "y"), -100) \/ Gt(Get(position, "y"), 512)
    THEN "Position Y must be between -100 and 512"
  ELSE Valid

DEFAULT_BLOCK_COLOR == Str(<<"#", "8", "B", "4", "5", "1", "3">>)

DEFAULT_BLOCK_TYPE == Str(<<"s", "t", "o", "n", "e">>)

validateBlockPlacement(data) ==
  IF ~Truthy(data) \/ TypeOf(data) # "object"
    THEN "Block data must be an object"
  ELSE IF validateCoordinates(Get(data, "x"), Get(data, "y"), Get(data, "z")) # Valid
    THEN validateCoordinates(Get(data, "x"), Get(data, "y"), Get(data, "z"))
  ELSE IF validateColor(Or(Get(data, "color"), DEFAULT_BLOCK_COLOR)) # Valid
    THEN validateColor(Or(Get(data, "color"), DEFAULT_BLOCK_COLOR))
  ELSE IF Truthy(Get(data, "type")) /\ validateBlockType(Get(data, "type")) # Valid
    THEN validateBlockType(Get(data, "type"))
  ELSE Valid

validateBlockRemoval(data) ==
  IF ~Truthy(data) \/ TypeOf(data) # "object"
    THEN "Block data must be an object"
  ELSE validateCoordinates(Get(data, "x"), Get(data, "y"), Get(data, "z"))


\* ------------------------------------------------------------------------
\* JavaScript objects used as maps: <<key, value>> pairs in insertion order
\* ------------------------------------------------------------------------

\* Object.keys(m) as a set
Keys(m) == {m[i][1] : i \in DOMAIN m}

\* m[k] !== undefined
Has(m, k) == \E i \in DOMAIN m : m[i][1] = k

\* m[k]
Lookup(m, k) ==
  IF Has(m, k) THEN m[CHOOSE i \in DOMAIN m : m[i][1] = k][2] ELSE Undefined

\* m[k] = v appending a pair even when the key is present
Put_duplicate(m, k, v) == Append(m, <<k, v>>)

\* m[k] = v that leaves an existing key's value as it is
Put_keepFirst(m, k, v) == IF Has(m, k) THEN m ELSE Append(m, <<k, v>>)

\* m[k] = v: an existing key keeps its place, a new key goes last
Put(m, k, v) ==
  IF Has(m, k)
    THEN [i \in DOMAIN m |-> IF m[i][1] = k THEN <<k, v>> ELSE m[i]]
  ELSE Append(m, <<k, v>>)

\* delete m[k] that leaves the map as it is
Delete_nothing(m, k) == m

\* delete m[k]
Delete(m, k) == SelectSeq(m, LAMBDA e : e[1] # k)

\* Object.values(m)
Values(m) == [i \in DOMAIN m |-> m[i][2]]

\* ------------------------------------------------------------------------
\* World state (src/server/index.js, lines 86-160)
\* ------------------------------------------------------------------------

VARIABLES
  blocks,      \* world.blocks: block key -> {color, type} (or a color string)
  agents,      \* world.agents: socket id or http id -> Agent
  connected,   \* the ids of the sockets io.emit reaches
  nextSocket,  \* how many sockets have connected so far
  worldFile,   \* world.json
  request,     \* the ingress event handled last
  emitted,     \* the socket events that handler emitted, in order
  response,    \* the HTTP response that handler sent, if any
  saved,       \* how many times that handler called saveWorld
  written,     \* how that call's writeFileSync ended, "none" without a call
  before,      \* history: blocks, agents, connected and worldFile as that
               \* handler found them
  hits,        \* apiLimiter's store: req.ip -> requests counted this window
  blockHits,   \* blockLimiter's store, likewise
  ledger,      \* history: the sockets whose spawn was accepted, the sockets
               \* that disconnected, the ids POST /api/spawn handed out
  burst,       \* history: per origin, the events admitted and the block
               \* mutations applied since its current second began
  transport,   \* the block mutations applied so far and, per connected
               \* session, how many had been applied when it connected, the
               \* events emitted to it that are still in flight, and the
               \* events its client has received
  process      \* the Node process: "running", or "exited" once an exception
               \* was thrown where nothing catches it

vars == <<blocks, agents, connected, nextSocket, worldFile,
          request, emitted, response, saved, written, before,
          hits, blockHits, ledger, burst, transport, process>>

\* getBlockKey that drops the signs
getBlockKey_abs(x, y, z) ==
  ToStr(Abs(x)) \o <<",">> \o ToStr(Abs(y)) \o <<",">> \o ToStr(Abs(z))

\* getBlockKey(x, y, z): `${x},${y},${z}`
getBlockKey(x, y, z) == ToStr(x) \o <<",">> \o ToStr(y) \o <<",">> \o ToStr(z)

\* JSON.parse(JSON.stringify(v)): undefined properties are dropped, NaN and
\* Infinity become null
RECURSIVE JsonValue(_)
JsonValue(v) ==
  CASE v.t \in {"NaN", "Infinity"} -> Null
    [] v.t = "object" ->
         Obj([n \in {d \in DOMAIN v.f : v.f[d].t # "undefined"} |->
                JsonValue(v.f[n])])
    [] OTHER -> v

\* the content JSON.stringify(world.blocks) leaves in the file, read back
JsonMap(m) ==
  LET kept == SelectSeq(m, LAMBDA e : e[2].t # "undefined")
  IN  [i \in DOMAIN kept |-> <<kept[i][1], JsonValue(kept[i][2])>>]

FileMissing == [state |-> "missing", blocks |-> <<>>]

FileCorrupt == [state |-> "corrupt", blocks |-> <<>>]

FileOf(m) == [state |-> "json", blocks |-> JsonMap(m)]

\* saveWorld() that never reaches the file
saveWorld_skipped(b, file, fsResult) == file

\* the ways fs.writeFileSync(WORLD_FILE, json) ends.  It opens the file for
\* writing, which empties it, writes the text and closes it: it returns
\* ("ok"), throws from the open with the file untouched ("EACCES"), or throws
\* from the write with the file emptied or cut short ("ENOSPC")
FsResults == {"ok", "EACCES", "ENOSPC"}

\* saveWorld(): writeFileSync of the whole block map over the file; what it
\* throws is caught and logged
saveWorld(b, file, fsResult) ==
  CASE fsResult = "ok" -> FileOf(b)
    [] fsResult = "ENOSPC" -> FileCorrupt
    [] OTHER -> file

\* the startup load: the parsed file when it exists and parses, else {}
loadWorld(file) == IF file.state = "json" THEN file.blocks ELSE <<>>

\* the record sent for one entry of world.blocks with y and z exchanged
blockRecord_swapped(entry) ==
  LET parts == Split(entry[1], ",")
      coord(i) == IF i <= Len(parts) THEN StringToNumber(parts[i]) ELSE Undefined
  IN  [x |-> coord(1), y |-> coord(3), z |-> coord(2),
       color |-> Get(entry[2], "color"),
       type |-> Or(Get(entry[2], "type"), DEFAULT_BLOCK_TYPE)]

\* the record sent for one entry of world.blocks (lines 173-180, 391-399)
blockRecord(entry) ==
  LET parts == Split(entry[1], ",")
      coord(i) == IF i <= Len(parts) THEN StringToNumber(parts[i]) ELSE Undefined
  IN  IF TypeOf(entry[2]) = "string"
        THEN [x |-> coord(1), y |-> coord(2), z |-> coord(3),
              color |-> entry[2], type |-> DEFAULT_BLOCK_TYPE]
      ELSE [x |-> coord(1), y |-> coord(2), z |-> coord(3),
            color |-> Get(entry[2], "color"),
            type |-> Or(Get(entry[2], "type"), DEFAULT_BLOCK_TYPE)]

blocksArray(b) == [i \in DOMAIN b |-> blockRecord(b[i])]

\* one emission: the sockets it is delivered to, the event name, the payload
Emission(to, event, data) == [to |-> to, event |-> event, data |-> data]

\* socket.emit(event, data)
socket_emit(s, event, data) == Emission({s}, event, data)

\* io.emit(event, data)
io_emit(conn, event, data) == Emission(conn, event, data)

\* socket.broadcast.emit(event, data)
socket_broadcast_emit(conn, s, event, data) == Emission(conn \ {s}, event, data)

\* broadcastAgentEvent(event, agent)
broadcastAgentEvent(conn, event, agent) ==
  io_emit(conn, event,
          [id |-> agent.id, name |-> agent.name, color |-> agent.color,
           position |-> agent.position, avatar |-> agent.avatar])

\* the error:validation event of a handler's catch block
validationError(s, message) ==
  socket_emit(s, "error:validation", [message |-> message])

\* the message of the TypeError that reading a property of undefined throws
TypeErrorMessage == "Cannot read properties of undefined"

NoResponse == [status |-> 0, body |-> [none |-> TRUE]]

HttpResponse(status, body) == [status |-> status, body |-> body]


\* ------------------------------------------------------------------------
\* Socket.io handlers (src/server/index.js, lines 169-379).  Each operator
\* gives what the handler leaves behind: the maps it wrote, the events it
\* emitted in order, and whether it called saveWorld.
\* ------------------------------------------------------------------------

\* socket.id of the n-th connection
SocketId(n) == <<"s", "k", "_">> \o NatToString(n)

\* io.on('connection') throws: value.color (line 178) is read of an entry of
\* world.blocks that is null, a TypeError
connectionThrows(b) == \E i \in DOMAIN b : ~CanRead(b[i][2])

\* io.on('connection'): world:state, then world:agents when there are agents
\* io.on('connection') sending a world:state without the blocks
connection_bare(b, a, s) ==
  <<socket_emit(s, "world:state", [blocks |-> <<>>, agents |-> Values(a)])>>

connection(b, a, s) ==
  <<socket_emit(s, "world:state",
                [blocks |-> blocksArray(b), agents |-> Values(a)])>>
    \o (IF Len(Values(a)) > 0
          THEN <<socket_emit(s, "world:agents", Values(a))>>
        ELSE <<>>)

DEFAULT_AGENT_NAME == Str(<<"U", "n", "k", "n", "o", "w", "n">>)

DEFAULT_AGENT_COLOR == Str(<<"#", "f", "f", "6", "6", "0", "0">>)

DEFAULT_AVATAR == Str(<<"b", "o", "x">>)

DEFAULT_POSITION == Obj([x |-> Num(0), y |-> Num(1), z |-> Num(0)])

\* the agent a spawn leaves in world.agents[id] (lines 203-215)
spawnedAgent(a, id, data) ==
  IF Has(a, id)
    THEN [Lookup(a, id) EXCEPT
            !.name = Or(Get(data, "name"), Lookup(a, id).name),
            !.color = Or(Get(data, "color"), Lookup(a, id).color)]
  ELSE [id |-> Str(id),
        name |-> Or(Get(data, "name"), DEFAULT_AGENT_NAME),
        color |-> Or(Get(data, "color"), DEFAULT_AGENT_COLOR),
        position |-> DEFAULT_POSITION,
        avatar |-> Or(Get(data, "avatar"), DEFAULT_AVATAR)]

\* the spawn handlers' validation without the color check
spawnError_nameOnly(data) ==
  IF ~CanRead(data) THEN TypeErrorMessage
  ELSE IF Truthy(Get(data, "name")) /\ validateAgentName(Get(data, "name")) # Valid
    THEN validateAgentName(Get(data, "name"))
  ELSE Valid

\* the first error of the spawn handlers' validation (lines 200-201)
spawnError(data) ==
  IF ~CanRead(data) THEN TypeErrorMessage
  ELSE IF Truthy(Get(data, "name")) /\ validateAgentName(Get(data, "name")) # Valid
    THEN validateAgentName(Get(data, "name"))
  ELSE IF Truthy(Get(data, "color")) /\ validateColor(Get(data, "color")) # Valid
    THEN validateColor(Get(data, "color"))
  ELSE Valid

\* handleAgentSpawn that writes the name before it validates the color
handleAgentSpawn_partial(a, conn, s, data) ==
  IF spawnError(data) # Valid
    THEN [agents |-> IF /\ CanRead(data)
                        /\ Has(a, s)
                        /\ Truthy(Get(data, "name"))
                        /\ validateAgentName(Get(data, "name")) = Valid
                       THEN Put(a, s, [Lookup(a, s) EXCEPT !.name = Get(data, "name")])
                     ELSE a,
          emitted |-> <<validationError(s, spawnError(data))>>]
  ELSE LET agent == spawnedAgent(a, s, data)
       IN  [agents |-> Put(a, s, agent),
            emitted |-> <<socket_emit(s, "agent:joined",
                                      [id |-> Str(s), name |-> agent.name,
                                       color |-> agent.color,
                                       position |-> agent.position]),
                          broadcastAgentEvent(conn, "agent:joined", agent)>>]

\* handleAgentSpawn (agent:spawn and agent:join)
handleAgentSpawn(a, conn, s, data) ==
  IF spawnError(data) # Valid
    THEN [agents |-> a, emitted |-> <<validationError(s, spawnError(data))>>]
  ELSE LET agent == spawnedAgent(a, s, data)
       IN  [agents |-> Put(a, s, agent),
            emitted |-> <<socket_emit(s, "agent:joined",
                                      [id |-> Str(s), name |-> agent.name,
                                       color |-> agent.color,
                                       position |-> agent.position]),
                          broadcastAgentEvent(conn, "agent:joined", agent)>>]

\* the first error of the agent:move handler (lines 245-253)
moveError(a, s, data) ==
  IF ~Has(a, s) THEN "Agent not found"
  ELSE IF ~CanRead(data) THEN TypeErrorMessage
  ELSE IF ~Truthy(Get(data, "position")) THEN "Position data required"
  ELSE validatePosition(Get(data, "position"))

\* socket.on('agent:move') announcing the move with io.emit
agentMove_toAll(a, conn, s, data) ==
  IF moveError(a, s, data) # Valid
    THEN [agents |-> a, emitted |-> <<validationError(s, moveError(a, s, data))>>]
  ELSE [agents |-> Put(a, s, [Lookup(a, s) EXCEPT !.position = Get(data, "position")]),
        emitted |-> <<io_emit(conn, "agent:moved",
                              [id |-> Str(s),
                               position |-> Get(data, "position")])>>]

\* socket.on('agent:move')
agentMove(a, conn, s, data) ==
  IF moveError(a, s, data) # Valid
    THEN [agents |-> a, emitted |-> <<validationError(s, moveError(a, s, data))>>]
  ELSE [agents |-> Put(a, s, [Lookup(a, s) EXCEPT !.position = Get(data, "position")]),
        emitted |-> <<socket_broadcast_emit(conn, s, "agent:moved",
                                            [id |-> Str(s),
                                             position |-> Get(data, "position")])>>]

\* the block:placed payload taking color and type from the request
blockPlacedPayload_request(data, stored) ==
  [x |-> Get(data, "x"), y |-> Get(data, "y"), z |-> Get(data, "z"),
   color |-> Get(data, "color"), type |-> Get(data, "type")]

\* the block:placed payload (lines 288-294, 501): the request's coordinates
\* and the color and type read back from world.blocks[key]
blockPlacedPayload(data, stored) ==
  [x |-> Get(data, "x"), y |-> Get(data, "y"), z |-> Get(data, "z"),
   color |-> Get(stored, "color"), type |-> Get(stored, "type")]

\* the value a place stores, taking color and type as the request gave them
placedBlock_asGiven(data) ==
  Obj([color |-> Get(data, "color"), type |-> Get(data, "type")])

\* the value a place stores (lines 282-285, 500)
placedBlock(data) ==
  Obj([color |-> Or(Get(data, "color"), DEFAULT_BLOCK_COLOR),
       type |-> Or(Get(data, "type"), DEFAULT_BLOCK_TYPE)])

dataKey(data) == getBlockKey(Get(data, "x"), Get(data, "y"), Get(data, "z"))

\* socket.on('block:place')
blockPlace(b, conn, s, data) ==
  IF validateBlockPlacement(data) # Valid
    THEN [blocks |-> b, save |-> FALSE,
          emitted |-> <<validationError(s, validateBlockPlacement(data))>>]
  ELSE LET nb == Put(b, dataKey(data), placedBlock(data))
       IN  [blocks |-> nb, save |-> TRUE,
            emitted |-> <<io_emit(conn, "block:placed",
                                  blockPlacedPayload(data, Lookup(nb, dataKey(data))))>>]

\* socket.on('block:remove') that rejects a key that holds no block
blockRemove_strict(b, conn, s, data) ==
  IF validateBlockRemoval(data) # Valid
    THEN [blocks |-> b, save |-> FALSE,
          emitted |-> <<validationError(s, validateBlockRemoval(data))>>]
  ELSE IF ~Has(b, dataKey(data))
    THEN [blocks |-> b, save |-> FALSE,
          emitted |-> <<validationError(s, "Block not found")>>]
  ELSE [blocks |-> Delete(b, dataKey(data)), save |-> TRUE,
        emitted |-> <<io_emit(conn, "block:removed",
                              [x |-> Get(data, "x"), y |-> Get(data, "y"),
                               z |-> Get(data, "z")])>>]

\* socket.on('block:remove')
blockRemove(b, conn, s, data) ==
  IF validateBlockRemoval(data) # Valid
    THEN [blocks |-> b, save |-> FALSE,
          emitted |-> <<validationError(s, validateBlockRemoval(data))>>]
  ELSE [blocks |-> Delete(b, dataKey(data)), save |-> TRUE,
        emitted |-> <<io_emit(conn, "block:removed",
                              [x |-> Get(data, "x"), y |-> Get(data, "y"),
                               z |-> Get(data, "z")])>>]

\* the first error of the chat:message handler (lines 343-351)
chatError(a, s, data) ==
  IF ~Has(a, s) THEN "Agent not found"
  ELSE IF ~CanRead(data) THEN TypeErrorMessage
  ELSE IF ~Truthy(Get(data, "message")) THEN "Message required"
  ELSE validateMessage(Get(data, "message"))

\* socket.on('chat:message'); the timestamp is the wall clock's
chatMessage(a, conn, s, data) ==
  IF chatError(a, s, data) # Valid
    THEN <<validationError(s, chatError(a, s, data))>>
  ELSE <<io_emit(conn, "chat:message",
                 [from |-> Lookup(a, s).name, message |-> Get(data, "message"),
                  timestamp |-> "toISOString"])>>

\* socket.on('disconnect') announcing a leave whether or not there is an agent
disconnect_always(a, conn, s) ==
  [agents |-> Delete(a, s),
   emitted |-> <<io_emit(conn, "agent:left", [id |-> Str(s)])>>]

\* socket.on('disconnect') that announces the leave and keeps the entry
disconnect_keep(a, conn, s) ==
  IF Has(a, s)
    THEN [agents |-> a,
          emitted |-> <<broadcastAgentEvent(conn, "agent:left", Lookup(a, s))>>]
  ELSE [agents |-> a, emitted |-> <<>>]

\* socket.on('disconnect') announcing the leave to the leaving socket too
disconnect_echo(a, conn, s) ==
  IF Has(a, s)
    THEN [agents |-> Delete(a, s),
          emitted |-> <<broadcastAgentEvent(conn \cup {s}, "agent:left", Lookup(a, s))>>]
  ELSE [agents |-> a, emitted |-> <<>>]

\* socket.on('disconnect'); conn are the sockets still connected
disconnect(a, conn, s) ==
  IF Has(a, s)
    THEN [agents |-> Delete(a, s),
          emitted |-> <<broadcastAgentEvent(conn, "agent:left", Lookup(a, s))>>]
  ELSE [agents |-> a, emitted |-> <<>>]


\* ------------------------------------------------------------------------
\* REST handlers (src/server/index.js, lines 389-520)
\* ------------------------------------------------------------------------

Success == [success |-> TRUE]

ErrorBody(message) == [error |-> message]

\* POST /api/spawn taking its ids where socket.io takes its own
HttpId_likeSocketId(n) == <<"s", "k", "_">> \o NatToString(n)

\* the id POST /api/spawn makes: 'http_' + Date.now() + '_' + random; n
\* stands for the clock reading and the random suffix together
HttpId(n) == <<"h", "t", "t", "p", "_">> \o NatToString(n)

\* app.post('/api/spawn')
httpSpawn(a, body, id) ==
  IF spawnError(body) # Valid
    THEN [agents |-> a, response |-> HttpResponse(400, ErrorBody(spawnError(body)))]
  ELSE LET agent == [id |-> Str(id),
                     name |-> Or(Get(body, "name"), DEFAULT_AGENT_NAME),
                     color |-> Or(Get(body, "color"), DEFAULT_AGENT_COLOR),
                     position |-> DEFAULT_POSITION,
                     avatar |-> Or(Get(body, "avatar"), DEFAULT_AVATAR)]
       IN  [agents |-> Put(a, id, agent),
            response |-> HttpResponse(200, [success |-> TRUE, agent |-> agent])]

\* the first error app.post('/api/move') throws (lines 457-461)
httpMoveError(body) ==
  IF ~Truthy(Get(body, "id")) THEN "Agent ID required"
  ELSE IF ~Truthy(Get(body, "position")) THEN "Position data required"
  ELSE validatePosition(Get(body, "position"))

\* app.post('/api/move')
httpMove(a, conn, body) ==
  LET id == ToStr(Get(body, "id"))
  IN  IF httpMoveError(body) # Valid
        THEN [agents |-> a, emitted |-> <<>>,
              response |-> HttpResponse(400, ErrorBody(httpMoveError(body)))]
      ELSE IF ~Has(a, id)
        THEN [agents |-> a, emitted |-> <<>>,
              response |-> HttpResponse(404, ErrorBody("Agent not found"))]
      ELSE [agents |-> Put(a, id, [Lookup(a, id) EXCEPT
                                     !.position = Get(body, "position")]),
            emitted |-> <<io_emit(conn, "agent:moved",
                                  [id |-> Get(body, "id"),
                                   position |-> Get(body, "position")])>>,
            response |-> HttpResponse(200, Success)]

\* the checks of app.post('/api/block') without the validation module
httpBlockError_finiteOnly(body) ==
  IF ~Truthy(Get(body, "action")) THEN "Action (place/remove) required"
  ELSE IF \/ ~IsFinite(Get(body, "x"))
          \/ ~IsFinite(Get(body, "y"))
          \/ ~IsFinite(Get(body, "z"))
    THEN "Invalid coordinates"
  ELSE Valid

\* the first error app.post('/api/block') throws (lines 491-505), or "action"
\* when the action is neither place nor remove
httpBlockError(body) ==
  IF ~Truthy(Get(body, "action")) THEN "Action (place/remove) required"
  ELSE IF \/ ~IsFinite(Get(body, "x"))
          \/ ~IsFinite(Get(body, "y"))
          \/ ~IsFinite(Get(body, "z"))
    THEN "Invalid coordinates"
  ELSE IF Get(body, "action") = Str(<<"p", "l", "a", "c", "e">>) THEN validateBlockPlacement(body)
  ELSE IF Get(body, "action") = Str(<<"r", "e", "m", "o", "v", "e">>) THEN validateBlockRemoval(body)
  ELSE "Invalid action. Must be \"place\" or \"remove\""

\* app.post('/api/block')
httpBlock(b, conn, body) ==
  IF httpBlockError(body) # Valid
    THEN [blocks |-> b, save |-> FALSE, emitted |-> <<>>,
          response |-> HttpResponse(400, ErrorBody(httpBlockError(body)))]
  ELSE IF Get(body, "action") = Str(<<"p", "l", "a", "c", "e">>)
    THEN LET nb == Put(b, dataKey(body), placedBlock(body))
         IN  [blocks |-> nb, save |-> TRUE,
              emitted |-> <<io_emit(conn, "block:placed",
                                    blockPlacedPayload(body, Lookup(nb, dataKey(body))))>>,
              response |-> HttpResponse(200, Success)]
  ELSE [blocks |-> Delete(b, dataKey(body)), save |-> TRUE,
        emitted |-> <<io_emit(conn, "block:removed",
                              [x |-> Get(body, "x"), y |-> Get(body, "y"),
                               z |-> Get(body, "z")])>>,
        response |-> HttpResponse(200, Success)]

\* app.get('/api/agents'): the values of the agent map
getAgents(a) == HttpResponse(200, Values(a))

\* ------------------------------------------------------------------------
\* Rate limiting middleware (src/server/index.js, lines 37-58).  A path is
\* the sequence of its segments: '/api/block' is <<"api", "block">>.
\* ------------------------------------------------------------------------

\* apiLimiter: max
apiLimiterMax == 20

\* blockLimiter: max
blockLimiterMax == 10

\* the count a store keeps for a key; a key it has not seen counts 0
Hits(store, key) == IF Has(store, key) THEN Lookup(store, key) ELSE 0

\* req.path as a middleware mounted by app.use(mount, ...) reads it: express
\* strips the mount point from the url before it calls the middleware
reqPath(mount, url) == SubSeq(url, Len(mount) + 1, Len(url))

\* blockLimiter's skip: req.method !== 'POST' || req.path !== '/api/block'
blockLimiterSkip(method, mount, url) ==
  method # "POST" \/ reqPath(mount, url) # <<"api", "block">>

\* the answer of apiLimiter's handler
TooManyRequests == HttpResponse(429, ErrorBody("Too many requests"))

\* the answer of express-rate-limit's own handler, which blockLimiter keeps
TooManyRequestsDefault ==
  HttpResponse(429, [message |-> "Too many requests, please try again later."])

\* rateLimit that lets the request at max + 1 through
rateLimit_offByOne(store, key, max, skipped, answer) ==
  IF skipped THEN [store |-> store, next |-> TRUE, response |-> NoResponse]
  ELSE LET total == Hits(store, key) + 1
       IN  [store |-> Put(store, key, total), next |-> total <= max + 1,
            response |-> IF total <= max + 1 THEN NoResponse ELSE answer]

\* one rateLimit middleware: a skipped request passes uncounted; any other
\* is counted, and passes while the count is within max
rateLimit(store, key, max, skipped, answer) ==
  IF skipped THEN [store |-> store, next |-> TRUE, response |-> NoResponse]
  ELSE LET total == Hits(store, key) + 1
       IN  [store |-> Put(store, key, total), next |-> total <= max,
            response |-> IF total <= max THEN NoResponse ELSE answer]

\* the middleware in front of a route under /api/: apiLimiter mounted on
\* '/api/', then blockLimiter mounted on '/api/block' when the url is under it
limiters(h, bh, ip, method, url) ==
  LET api == rateLimit(h, ip, apiLimiterMax, FALSE, TooManyRequests)
      underBlock == Len(url) >= 2 /\ SubSeq(url, 1, 2) = <<"api", "block">>
      block == rateLimit(bh, ip, blockLimiterMax,
                         blockLimiterSkip(method, <<"api", "block">>, url),
                         TooManyRequestsDefault)
  IN  IF ~api.next
        THEN [hits |-> api.store, blockHits |-> bh, next |-> FALSE,
              response |-> api.response]
      ELSE IF ~underBlock
        THEN [hits |-> api.store, blockHits |-> bh, next |-> TRUE,
              response |-> NoResponse]
      ELSE [hits |-> api.store, blockHits |-> block.store,
            next |-> block.next, response |-> block.response]

\* ------------------------------------------------------------------------
\* The state machine: one action per ingress event.  Node runs each handler
\* to completion before the next event, so each handler is one step.
\* ------------------------------------------------------------------------

\* the most sockets that ever connect
MaxSockets == 2

\* nothing applied, nobody connected
NoTransport == [applied |-> <<>>, since |-> <<>>, inflight |-> <<>>, got |-> <<>>]

\* nothing observed yet
NoLedger == [spawned |-> {}, left |-> {}, http |-> {}]

NoRequest == [via |-> "none", kind |-> "startup", from |-> <<>>, data |-> Undefined]

Request(via, kind, from, data) ==
  [via |-> via, kind |-> kind, from |-> from, data |-> data]

Snapshot ==
  [blocks |-> blocks, agents |-> agents, connected |-> connected,
   worldFile |-> worldFile]

InitWith(files) ==
  /\ worldFile \in files
  /\ blocks = loadWorld(worldFile)
  /\ agents = <<>>
  /\ connected = {}
  /\ nextSocket = 0
  /\ request = NoRequest
  /\ emitted = <<>>
  /\ response = NoResponse
  /\ saved = 0
  /\ written = "none"
  /\ before = [blocks |-> loadWorld(worldFile), agents |-> <<>>,
               connected |-> {}, worldFile |-> worldFile]
  /\ hits = <<>>
  /\ blockHits = <<>>
  /\ ledger = NoLedger
  /\ burst = <<>>
  /\ transport = NoTransport
  /\ process = "running"

\* the process has not exited
Running == process = "running"

\* io.on('connection') has no try/catch, and nothing listens for
\* 'uncaughtException': what the listener throws ends the process, and with
\* it every connection, before anything is sent
Connect ==
  /\ Running
  /\ nextSocket < MaxSockets
  /\ nextSocket' = nextSocket + 1
  /\ IF connectionThrows(blocks)
       THEN /\ process' = "exited"
            /\ connected' = {}
            /\ emitted' = <<>>
       ELSE /\ process' = process
            /\ connected' = connected \cup {SocketId(nextSocket + 1)}
            /\ emitted' = connection(blocks, agents, SocketId(nextSocket + 1))
  /\ request' = Request("socket", "connection", SocketId(nextSocket + 1), Undefined)
  /\ response' = NoResponse
  /\ saved' = 0
  /\ written' = "none"
  /\ before' = Snapshot
  /\ UNCHANGED <<blocks, agents, worldFile, hits, blockHits>>

\* socket.io takes the socket out of the namespace before it fires
\* 'disconnect', so io.emit in the handler no longer reaches it
Disconnect(s) ==
  /\ Running
  /\ s \in connected
  /\ connected' = connected \ {s}
  /\ \E r \in {disconnect(agents, connected \ {s}, s)} :
       /\ agents' = r.agents
       /\ emitted' = r.emitted
       /\ request' = Request("socket", "disconnect", s, Undefined)
       /\ response' = NoResponse
       /\ saved' = 0
       /\ written' = "none"
       /\ before' = Snapshot
       /\ UNCHANGED <<process, blocks, nextSocket, worldFile, hits, blockHits>>

AgentSpawn(s, data) ==
  /\ Running
  /\ s \in connected
  /\ \E r \in {handleAgentSpawn(agents, connected, s, data)} :
       /\ agents' = r.agents
       /\ emitted' = r.emitted
       /\ request' = Request("socket", "agent:spawn", s, data)
       /\ response' = NoResponse
       /\ saved' = 0
       /\ written' = "none"
       /\ before' = Snapshot
       /\ UNCHANGED <<process, blocks, connected, nextSocket, worldFile,
                      hits, blockHits>>

AgentMove(s, data) ==
  /\ Running
  /\ s \in connected
  /\ \E r \in {agentMove(agents, connected, s, data)} :
       /\ agents' = r.agents
       /\ emitted' = r.emitted
       /\ request' = Request("socket", "agent:move", s, data)
       /\ response' = NoResponse
       /\ saved' = 0
       /\ written' = "none"
       /\ before' = Snapshot
       /\ UNCHANGED <<process, blocks, connected, nextSocket, worldFile,
                      hits, blockHits>>

ChatMessage(s, data) ==
  /\ Running
  /\ s \in connected
  /\ emitted' = chatMessage(agents, connected, s, data)
  /\ request' = Request("socket", "chat:message", s, data)
  /\ response' = NoResponse
  /\ saved' = 0
  /\ written' = "none"
  /\ before' = Snapshot
  /\ UNCHANGED <<process, blocks, agents, connected, nextSocket, worldFile,
                 hits, blockHits>>

BlockPlace(s, data, fsResult) ==
  /\ Running
  /\ s \in connected
  /\ \E r \in {blockPlace(blocks, connected, s, data)} :
       /\ blocks' = r.blocks
       /\ emitted' = r.emitted
       /\ saved' = IF r.save THEN 1 ELSE 0
       /\ written' = IF r.save THEN fsResult ELSE "none"
       /\ worldFile' = IF r.save THEN saveWorld(r.blocks, worldFile, fsResult)
            ELSE worldFile
       /\ request' = Request("socket", "block:place", s, data)
       /\ response' = NoResponse
       /\ before' = Snapshot
       /\ UNCHANGED <<process, agents, connected, nextSocket, hits, blockHits>>

BlockRemove(s, data, fsResult) ==
  /\ Running
  /\ s \in connected
  /\ \E r \in {blockRemove(blocks, connected, s, data)} :
       /\ blocks' = r.blocks
       /\ emitted' = r.emitted
       /\ saved' = IF r.save THEN 1 ELSE 0
       /\ written' = IF r.save THEN fsResult ELSE "none"
       /\ worldFile' = IF r.save THEN saveWorld(r.blocks, worldFile, fsResult)
            ELSE worldFile
       /\ request' = Request("socket", "block:remove", s, data)
       /\ response' = NoResponse
       /\ before' = Snapshot
       /\ UNCHANGED <<process, agents, connected, nextSocket, hits, blockHits>>

\* the url paths of the POST routes, as the limiters see them
API_SPAWN == <<"api", "spawn">>

API_MOVE == <<"api", "move">>

API_BLOCK == <<"api", "block">>

\* a request a limiter answered never reaches its route
HttpSpawn(ip, body, n) ==
  /\ Running
  /\ \E lim \in {limiters(hits, blockHits, ip, "POST", API_SPAWN)} :
     \E r \in {IF lim.next THEN httpSpawn(agents, body, HttpId(n))
                ELSE [agents |-> agents, response |-> lim.response]} :
       /\ hits' = lim.hits
       /\ blockHits' = lim.blockHits
       /\ agents' = r.agents
       /\ response' = r.response
       /\ request' = Request("http", "POST /api/spawn", ip, body)
       /\ emitted' = <<>>
       /\ saved' = 0
       /\ written' = "none"
       /\ before' = Snapshot
       /\ UNCHANGED <<process, blocks, connected, nextSocket, worldFile>>

HttpMove(ip, body) ==
  /\ Running
  /\ \E lim \in {limiters(hits, blockHits, ip, "POST", API_MOVE)} :
     \E r \in {IF lim.next THEN httpMove(agents, connected, body)
                ELSE [agents |-> agents, emitted |-> <<>>,
                      response |-> lim.response]} :
       /\ hits' = lim.hits
       /\ blockHits' = lim.blockHits
       /\ agents' = r.agents
       /\ emitted' = r.emitted
       /\ response' = r.response
       /\ request' = Request("http", "POST /api/move", ip, body)
       /\ saved' = 0
       /\ written' = "none"
       /\ before' = Snapshot
       /\ UNCHANGED <<process, blocks, connected, nextSocket, worldFile>>

HttpBlock(ip, body, fsResult) ==
  /\ Running
  /\ \E lim \in {limiters(hits, blockHits, ip, "POST", API_BLOCK)} :
     \E r \in {IF lim.next THEN httpBlock(blocks, connected, body)
                ELSE [blocks |-> blocks, save |-> FALSE, emitted |-> <<>>,
                      response |-> lim.response]} :
       /\ hits' = lim.hits
       /\ blockHits' = lim.blockHits
       /\ blocks' = r.blocks
       /\ emitted' = r.emitted
       /\ response' = r.response
       /\ saved' = IF r.save THEN 1 ELSE 0
       /\ written' = IF r.save THEN fsResult ELSE "none"
       /\ worldFile' = IF r.save THEN saveWorld(r.blocks, worldFile, fsResult)
            ELSE worldFile
       /\ request' = Request("http", "POST /api/block", ip, body)
       /\ before' = Snapshot
       /\ UNCHANGED <<process, agents, connected, nextSocket>>

API_AGENTS == <<"api", "agents">>

GetAgents(ip) ==
  /\ Running
  /\ \E lim \in {limiters(hits, blockHits, ip, "GET", API_AGENTS)} :
       /\ hits' = lim.hits
       /\ blockHits' = lim.blockHits
       /\ response' = IF lim.next THEN getAgents(agents) ELSE lim.response
       /\ request' = Request("http", "GET /api/agents", ip, Undefined)
       /\ emitted' = <<>>
       /\ saved' = 0
       /\ written' = "none"
       /\ before' = Snapshot
       /\ UNCHANGED <<process, blocks, agents, connected, nextSocket, worldFile>>

\* a limiter's window ends for one origin: its stores forget the origin
WindowReset(ip) ==
  /\ Running
  /\ Has(hits, ip)
  /\ hits' = Delete(hits, ip)
  /\ blockHits' = Delete(blockHits, ip)
  /\ UNCHANGED <<process, blocks, agents, connected, nextSocket, worldFile,
                 request, emitted, response, saved, written, before>>

\* what the ledger holds once the request just handled is recorded
Recorded(l, req, resp) ==
  IF req.via = "socket" /\ req.kind = "agent:spawn" /\ spawnError(req.data) = Valid
    THEN [l EXCEPT !.spawned = @ \cup {req.from}]
  ELSE IF req.via = "socket" /\ req.kind = "disconnect"
    THEN [l EXCEPT !.left = @ \cup {req.from}]
  ELSE IF req.kind = "POST /api/spawn" /\ resp.status = 200
    THEN [l EXCEPT !.http = @ \cup {resp.body.agent.id.s}]
  ELSE l

\* the requests of the specifications below that do not study the limiters
\* come from one origin, one per window
ORIGIN == <<"1", "0", ".", "0", ".", "0", ".", "7">>

Spaced == Hits(hits, ORIGIN) = 0

Observed ==
  /\ ledger' = Recorded(ledger, request', response')
  /\ UNCHANGED <<burst, transport>>

Unobserved == UNCHANGED <<ledger, burst, transport>>

\* ------------------------------------------------------------------------
\* Inputs
\* ------------------------------------------------------------------------

Coord(c) == Obj([x |-> c[1], y |-> c[2], z |-> c[3]])

BlockData(c, look) ==
  Obj([x |-> c[1], y |-> c[2], z |-> c[3], color |-> look[1], type |-> look[2]])

\* the body of POST /api/block: the block data and the action
HttpBlockBody(action, data) ==
  Obj([n \in {"action"} \cup DOMAIN data.f |->
         IF n = "action" THEN action ELSE data.f[n]])

PLACE == Str(<<"p", "l", "a", "c", "e">>)

REMOVE == Str(<<"r", "e", "m", "o", "v", "e">>)

\* x = 5, y = 1.5, z = -3
K1 == <<Num(5), NumHalf(1), Num(-3)>>

\* the corner x = 200, y = 256, z = -200
K2 == <<Num(200), Num(256), Num(-200)>>

\* coordinates validateCoordinates accepts
GoodCoords == {K1, K2}

\* coordinates out of range, off the grid, or not finite numbers
BadCoords ==
  {<<Num(201), Num(1), Num(0)>>, <<Num(-201), Num(1), Num(0)>>,
   <<Num(5), Num(1), Num(201)>>, <<Num(5), Num(1), Num(-201)>>,
   <<Num(5), Num(257), Num(5)>>, <<Num(5), NumHalf(256), Num(5)>>,
   <<Num(5), NumHalf(-51), Num(5)>>, <<Num(5), Num(-51), Num(5)>>,
   <<NumHalf(5), Num(1), Num(5)>>, <<Num(5), Num(1), NumHalf(-1)>>,
   <<NaN, Num(1), Num(5)>>, <<Num(5), Infinity, Num(5)>>,
   <<Num(5), Num(1), Undefined>>, <<Str(<<"5">>), Num(1), Num(5)>>}

OneBadCoord == <<Num(201), Num(1), Num(0)>>

BLUE == Str(<<"#", "0", "0", "A", "A", "F", "F">>)

GLASS == Str(<<"g", "l", "a", "s", "s">>)

NoLook == <<Undefined, Undefined>>

\* color and type pairs a place accepts: both omitted, both given, one given
GoodLooks == {NoLook, <<BLUE, GLASS>>, <<BLUE, Undefined>>}

\* a pair a place rejects
BadLook == <<Str(<<"b", "l", "u", "e">>), GLASS>>

\* world.json as the server may find it at startup: absent, unparseable, or
\* written by an earlier version (a color string, or an object without type)
LegacyBlocks ==
  << <<getBlockKey(K1[1], K1[2], K1[3]), DEFAULT_BLOCK_COLOR>>,
     <<getBlockKey(K2[1], K2[2], K2[3]), Obj([color |-> BLUE])>> >>

InitialFiles == {FileMissing, FileCorrupt, FileOf(LegacyBlocks)}

\* ------------------------------------------------------------------------
\* Block traffic: connections, block:place, block:remove, POST /api/block
\* ------------------------------------------------------------------------

PlaceInputs ==
  {BlockData(c, look) : c \in GoodCoords, look \in GoodLooks}
    \cup {BlockData(OneBadCoord, NoLook), BlockData(K1, BadLook), Undefined}

RemoveInputs == {Coord(c) : c \in GoodCoords \cup {OneBadCoord}} \cup {Undefined}

HttpBlockInputs ==
  {HttpBlockBody(PLACE, d) : d \in PlaceInputs \ {Undefined}}
    \cup {HttpBlockBody(REMOVE, d) : d \in RemoveInputs \ {Undefined}}
    \cup {HttpBlockBody(Undefined, Coord(K1)),
          HttpBlockBody(Str(<<"p", "a", "i", "n", "t">>), Coord(K1))}

InitBlocks == InitWith(InitialFiles)

NextBlocks ==
  \/ Connect /\ Observed
  \/ \E s \in connected : Disconnect(s) /\ Observed
  \/ \E s \in connected, d \in PlaceInputs :
       BlockPlace(s, d, "ok") /\ Observed
  \/ \E s \in connected, d \in RemoveInputs :
       BlockRemove(s, d, "ok") /\ Observed
  \/ \E d \in HttpBlockInputs :
       Spaced /\ HttpBlock(ORIGIN, d, "ok") /\ Observed
  \/ WindowReset(ORIGIN) /\ Unobserved

SpecBlocks == InitBlocks /\ [][NextBlocks]_vars

\* ------------------------------------------------------------------------
\* Coordinate validation: place requests over every kind of bad coordinate
\* ------------------------------------------------------------------------

CoordPlaceInputs == {BlockData(c, NoLook) : c \in {K1} \cup BadCoords}

InitCoords == InitWith({FileMissing, FileOf(LegacyBlocks)})

NextCoords ==
  \/ Connect /\ Observed
  \/ \E s \in connected, d \in CoordPlaceInputs :
       BlockPlace(s, d, "ok") /\ Observed
  \/ \E d \in CoordPlaceInputs :
       Spaced /\ HttpBlock(ORIGIN, HttpBlockBody(PLACE, d), "ok") /\ Observed
  \/ WindowReset(ORIGIN) /\ Unobserved

SpecCoords == InitCoords /\ [][NextCoords]_vars

\* ------------------------------------------------------------------------
\* Sessions: connections, spawns and re-spawns, disconnections
\* ------------------------------------------------------------------------

BOT == Str(<<"B", "o", "t", "_", "0", "1">>)

BOB == Str(<<"B", "o", "b">>)

SpawnData(name, color, avatar) ==
  Obj([name |-> name, color |-> color, avatar |-> avatar])

SpawnInputs ==
  {SpawnData(BOT, BLUE, Str(<<"c", "a", "t">>)),
   SpawnData(BOB, Undefined, Str(<<"d", "o", "g">>)),
   SpawnData(BOB, Str(<<"b", "l", "u", "e">>), Undefined),
   SpawnData(Str(<<"B", "o", "t", "!">>), BLUE, Undefined),
   Undefined}

InitAgents == InitWith({FileMissing})

NextAgents ==
  \/ Connect /\ Observed
  \/ \E s \in connected : Disconnect(s) /\ Observed
  \/ \E s \in connected, d \in SpawnInputs : AgentSpawn(s, d) /\ Observed

SpecAgents == InitAgents /\ [][NextAgents]_vars

\* ------------------------------------------------------------------------
\* Ingress: every socket event and every POST, accepted and rejected
\* ------------------------------------------------------------------------

P1 == Obj([x |-> NumHalf(5), y |-> Num(2), z |-> Num(-500)])

MoveInputs ==
  {Obj([position |-> P1]),
   Obj([position |-> Obj([x |-> Num(501), y |-> Num(2), z |-> Num(0)])]),
   Obj([position |-> Undefined])}

LongMessage == Str([i \in 1..(MAX_MESSAGE_LENGTH + 1) |-> "a"])

ChatInputs ==
  {Obj([message |-> Str(<<"h", "i">>)]), Obj([message |-> Str(<<>>)]),
   Obj([message |-> LongMessage])}

SocketSpawnInputs ==
  {SpawnData(BOT, BLUE, Undefined),
   SpawnData(BOB, Str(<<"b", "l", "u", "e">>), Undefined),
   SpawnData(Str(<<"B", "o", "t", "!">>), BLUE, Undefined)}

SocketPlaceInputs ==
  {BlockData(OneBadCoord, NoLook), BlockData(K1, BadLook)}

SocketRemoveInputs == {Coord(OneBadCoord), Undefined}

HttpSpawnInputs ==
  {SpawnData(BOT, Undefined, Undefined),
   SpawnData(BOB, Str(<<"b", "l", "u", "e">>), Undefined)}

HttpMoveInputs ==
  {Obj([id |-> Str(HttpId(1)),
        position |-> Obj([x |-> Num(0), y |-> Num(1001), z |-> Num(0)])]),
   Obj([id |-> Str(<<"n", "o", "b", "o", "d", "y">>), position |-> P1]),
   Obj([position |-> P1])}

HttpRejectedBlockInputs ==
  {HttpBlockBody(PLACE, BlockData(OneBadCoord, NoLook)),
   HttpBlockBody(PLACE, BlockData(K1, BadLook)),
   HttpBlockBody(REMOVE, Coord(OneBadCoord)),
   HttpBlockBody(Str(<<"d", "i", "g">>), Coord(K1)),
   Coord(K1)}

InitSocket == InitWith({FileOf(LegacyBlocks)})

NextSocket ==
  \/ Connect /\ Observed
  \/ \E s \in connected, d \in SocketSpawnInputs :
       AgentSpawn(s, d) /\ Observed
  \/ \E s \in connected, d \in MoveInputs : AgentMove(s, d) /\ Observed
  \/ \E s \in connected, d \in ChatInputs : ChatMessage(s, d) /\ Observed
  \/ \E s \in connected, d \in SocketPlaceInputs :
       BlockPlace(s, d, "ok") /\ Observed
  \/ \E s \in connected, d \in SocketRemoveInputs :
       BlockRemove(s, d, "ok") /\ Observed
  \/ \E d \in HttpSpawnInputs :
       Spaced /\ HttpSpawn(ORIGIN, d, 1) /\ Observed
  \/ \E d \in HttpMoveInputs : Spaced /\ HttpMove(ORIGIN, d) /\ Observed
  \/ \E d \in HttpRejectedBlockInputs :
       Spaced /\ HttpBlock(ORIGIN, d, "ok") /\ Observed
  \/ WindowReset(ORIGIN) /\ Unobserved

SpecSocket == InitSocket /\ [][NextSocket]_vars

\* ------------------------------------------------------------------------
\* The registry: socket sessions and HTTP agents side by side, under every
\* kind of accepted request
\* ------------------------------------------------------------------------

\* the clock readings and random suffixes POST /api/spawn may draw; nothing
\* in the code keeps two requests from drawing the same
HttpIdDraws == {1, 2}

HI == Obj([message |-> Str(<<"h", "i">>)])

\* world.json holds no block, as after the removal of the last one
InitRegistry == InitWith({FileOf(<<>>)})

NextRegistry ==
  \/ Connect /\ Observed
  \/ \E s \in connected : Disconnect(s) /\ Observed
  \/ \E s \in connected :
       AgentSpawn(s, SpawnData(BOT, BLUE, Undefined)) /\ Observed
  \/ \E s \in connected : AgentMove(s, Obj([position |-> P1])) /\ Observed
  \/ \E s \in connected : ChatMessage(s, HI) /\ Observed
  \/ \E s \in connected : BlockRemove(s, Coord(K1), "ok") /\ Observed
  \/ \E n \in HttpIdDraws :
       /\ Spaced
       /\ HttpSpawn(ORIGIN, SpawnData(BOB, Undefined, Undefined), n)
       /\ Observed
  \/ WindowReset(ORIGIN) /\ Unobserved

SpecRegistry == InitRegistry /\ [][NextRegistry]_vars

\* ------------------------------------------------------------------------
\* Bursts: one origin sends POSTs, one socket session sends block:place,
\* faster than the windows end
\* ------------------------------------------------------------------------

\* the most requests one origin sends within a window
MaxHits == 22

\* the most block events the socket session sends within a second
MaxBurst == 11

NoTally == [requests |-> 0, events |-> 0, blocks |-> 0, posts |-> 0,
            throttled |-> 0]

\* what an origin has done since its current window began
TallyOf(b, o) == IF Has(b, o) THEN Lookup(b, o) ELSE NoTally

\* the tally once the request just handled is counted: requests are the HTTP
\* requests issued, events the requests and socket events that were not
\* throttled, blocks the block mutations applied, posts the POSTs to
\* /api/block and throttled those of them answered 429
Tallied(b, req, resp) ==
  LET t == TallyOf(b, req.from)
      http == req.via = "http"
      post == req.kind = "POST /api/block"
      applied ==
        \/ post /\ resp.status = 200
        \/ req.via = "socket" /\ req.kind = "block:place"
             /\ validateBlockPlacement(req.data) = Valid
        \/ req.via = "socket" /\ req.kind = "block:remove"
             /\ validateBlockRemoval(req.data) = Valid
      N(c) == IF c THEN 1 ELSE 0
  IN  IF req.kind = "connection" THEN b
      ELSE Put(b, req.from,
               [requests |-> t.requests + N(http),
                events |-> t.events + N(~http \/ resp.status # 429),
                blocks |-> t.blocks + N(applied),
                posts |-> t.posts + N(post),
                throttled |-> t.throttled + N(post /\ resp.status = 429)])

Counted ==
  /\ ledger' = Recorded(ledger, request', response')
  /\ burst' = Tallied(burst, request', response')
  /\ UNCHANGED transport

\* a second has passed since a socket session's burst began
SecondPasses(s) ==
  /\ Has(burst, s)
  /\ burst' = Delete(burst, s)
  /\ UNCHANGED <<process, blocks, agents, connected, nextSocket, worldFile, request,
                 emitted, response, saved, written, before, hits, blockHits,
                 ledger, transport>>

BurstPosts ==
  {HttpBlockBody(PLACE, BlockData(K1, NoLook)),
   HttpBlockBody(PLACE, BlockData(K1, <<BLUE, GLASS>>))}

InitLimiter == InitWith({FileMissing})

NextLimiter ==
  \/ Connect /\ Counted
  \/ /\ SocketId(1) \in connected
     /\ TallyOf(burst, SocketId(1)).events < MaxBurst
     /\ BlockPlace(SocketId(1), BlockData(K1, NoLook), "ok")
     /\ Counted
  \/ \E body \in BurstPosts :
       /\ Hits(hits, ORIGIN) < MaxHits
       /\ HttpBlock(ORIGIN, body, "ok")
       /\ Counted
  \/ /\ Hits(hits, ORIGIN) < MaxHits
     /\ HttpSpawn(ORIGIN, SpawnData(BOB, Undefined, Undefined), 1)
     /\ Counted
  \/ /\ WindowReset(ORIGIN)
     /\ burst' = Delete(burst, ORIGIN)
     /\ UNCHANGED <<ledger, transport>>
  \/ SecondPasses(SocketId(1))

SpecLimiter == InitLimiter /\ [][NextLimiter]_vars

\* ------------------------------------------------------------------------
\* The client (src/client/src/main.js, lines 733-778)
\* ------------------------------------------------------------------------

\* the server events the client registers a handler for with socket.on
clientHandlers ==
  {"agent:joined", "world:state", "block:placed", "block:removed",
   "agent:moved", "agent:left", "chat:broadcast"}

\* ------------------------------------------------------------------------
\* Properties
\* ------------------------------------------------------------------------

IsSocket(kind) == request.via = "socket" /\ request.kind = kind

IsHttpBlock(action) ==
  request.kind = "POST /api/block" /\ Get(request.data, "action") = action

PlaceRequest == IsSocket("block:place") \/ IsHttpBlock(PLACE)

RemoveRequest == IsSocket("block:remove") \/ IsHttpBlock(REMOVE)

AcceptedPlace == PlaceRequest /\ validateBlockPlacement(request.data) = Valid

AcceptedRemove == RemoveRequest /\ validateBlockRemoval(request.data) = Valid

RequestKey == dataKey(request.data)

\* the last handler answered its socket with one error:validation and
\* emitted nothing else
OneErrorToOriginator ==
  /\ Len(emitted) = 1
  /\ emitted[1].event = "error:validation"
  /\ emitted[1].to = {request.from}

\* the coordinates of a place request are out of range, off the grid or not
\* finite numbers
OutOfGrid(d) ==
  LET x == Get(d, "x")
      y == Get(d, "y")
      z == Get(d, "z")
  IN  \/ ~IsFinite(x) \/ ~IsFinite(y) \/ ~IsFinite(z)
      \/ /\ IsFinite(x) /\ IsFinite(y) /\ IsFinite(z)
         /\ \/ Gt(Abs(x), 200) \/ Gt(Abs(z), 200)
            \/ Lt(y, -50) \/ Gt(y, 256)
            \/ ~IsInteger(x) \/ ~IsInteger(z)

\* C1: a place request (block:place, or POST /api/block with action place)
\* whose coordinates have |x| > 200, |z| > 200, y outside [-50, 256], a
\* non-integer x or z, or a non-finite coordinate is rejected, and the block
\* map is the same after it as before it.
C1_BadCoordinatesRejected ==
  (PlaceRequest /\ OutOfGrid(request.data)) =>
    /\ blocks = before.blocks
    /\ saved = 0
    /\ IsSocket("block:place") => OneErrorToOriginator
    /\ IsHttpBlock(PLACE) => (response.status = 400 /\ emitted = <<>>)

C1_Witness ==
  /\ IsSocket("block:place")
  /\ Get(request.data, "y") = Num(257)
  /\ OneErrorToOriginator
  /\ Len(blocks) > 0
  /\ blocks = before.blocks

RejectedSocketEvent ==
  \/ IsSocket("agent:spawn") /\ spawnError(request.data) # Valid
  \/ IsSocket("agent:move")
       /\ moveError(before.agents, request.from, request.data) # Valid
  \/ IsSocket("chat:message")
       /\ chatError(before.agents, request.from, request.data) # Valid
  \/ IsSocket("block:place") /\ validateBlockPlacement(request.data) # Valid
  \/ IsSocket("block:remove") /\ validateBlockRemoval(request.data) # Valid

RejectedHttpRequest ==
  \/ request.kind = "POST /api/spawn" /\ spawnError(request.data) # Valid
  \/ request.kind = "POST /api/move"
       /\ \/ httpMoveError(request.data) # Valid
          \/ ~Has(before.agents, ToStr(Get(request.data, "id")))
  \/ request.kind = "POST /api/block" /\ httpBlockError(request.data) # Valid

\* C2: a rejected ingress event (a validation failure in spawn, move,
\* block:place, block:remove or chat, or a move or chat for a session with no
\* agent) leaves the block map and the agent map unchanged and writes nothing
\* to the file.  On a socket it emits exactly one event, an error to the
\* originator alone; over HTTP it emits nothing and answers with one error
\* response.
C2_RejectedChangesNothing ==
  /\ (RejectedSocketEvent \/ RejectedHttpRequest) =>
       /\ blocks = before.blocks
       /\ agents = before.agents
       /\ saved = 0
       /\ worldFile = before.worldFile
  /\ RejectedSocketEvent => (OneErrorToOriginator /\ response = NoResponse)
  /\ RejectedHttpRequest =>
       /\ emitted = <<>>
       /\ response.status \in {400, 404}
       /\ DOMAIN response.body = {"error"}

\* a re-spawn with a valid name and an invalid color, another session present
C2_Witness ==
  /\ IsSocket("agent:spawn")
  /\ request.data = SpawnData(BOB, Str(<<"b", "l", "u", "e">>), Undefined)
  /\ Has(before.agents, request.from)
  /\ Lookup(agents, request.from).name = BOT
  /\ Cardinality(connected) >= 2
  /\ OneErrorToOriginator

\* the blocks list of the world:state event the last connection received
SnapshotBlocks == emitted[1].data.blocks

\* the color a stored entry carries: the entry itself when it is a legacy
\* color string
StoredColor(v) == IF TypeOf(v) = "string" THEN v ELSE Get(v, "color")

\* C3 as stated: the blocks list of world:state holds exactly one record per
\* entry of the block map, with the coordinates, color and type of the stored
\* entry.
C3_SnapshotEqualsStore ==
  IsSocket("connection") =>
    /\ emitted[1].event = "world:state"
    /\ emitted[1].to = {request.from}
    /\ Len(SnapshotBlocks) = Len(blocks)
    /\ \A i \in DOMAIN blocks :
         /\ getBlockKey(SnapshotBlocks[i].x, SnapshotBlocks[i].y,
                        SnapshotBlocks[i].z) = blocks[i][1]
         /\ SnapshotBlocks[i].color = StoredColor(blocks[i][2])
         /\ SnapshotBlocks[i].type = Get(blocks[i][2], "type")

\* C3 amended: one record per entry, with the coordinates and the color of
\* the stored entry, and its type when it stores one; an entry stored without
\* a type is reported as stone.  The list is taken from the map as the
\* connection found it.
C3_SnapshotEqualsStoreWithDefaultType ==
  IsSocket("connection") =>
    /\ emitted[1].event = "world:state"
    /\ emitted[1].to = {request.from}
    /\ blocks = before.blocks
    /\ Len(SnapshotBlocks) = Len(blocks)
    /\ \A i \in DOMAIN blocks :
         /\ getBlockKey(SnapshotBlocks[i].x, SnapshotBlocks[i].y,
                        SnapshotBlocks[i].z) = blocks[i][1]
         /\ SnapshotBlocks[i].color = StoredColor(blocks[i][2])
         /\ SnapshotBlocks[i].type =
              (IF Get(blocks[i][2], "type") = Undefined
                 THEN Str(<<"s", "t", "o", "n", "e">>)
               ELSE Get(blocks[i][2], "type"))

\* a connection that finds two blocks, one of them placed with a type
C3_Witness ==
  /\ IsSocket("connection")
  /\ Len(blocks) = 2
  /\ Len(SnapshotBlocks) = 2
  /\ \E i \in DOMAIN blocks : Get(blocks[i][2], "type") = GLASS
  /\ \E i \in DOMAIN blocks : SnapshotBlocks[i].y = Num(256)

\* the color and type a place request asks for, defaults included
AskedColor ==
  IF Get(request.data, "color") = Undefined
    THEN Str(<<"#", "8", "B", "4", "5", "1", "3">>)
  ELSE Get(request.data, "color")

AskedType ==
  IF Get(request.data, "type") = Undefined
    THEN Str(<<"s", "t", "o", "n", "e">>)
  ELSE Get(request.data, "type")

\* C4: an accepted place overwrites: the block map then has exactly one entry
\* for the key, with the color and type of this place; no other entry is
\* added; and a place identical to the one that wrote the entry leaves the
\* map as it was.
C4_PlaceOverwrites ==
  /\ \A i, j \in DOMAIN blocks : blocks[i][1] = blocks[j][1] => i = j
  /\ AcceptedPlace =>
       /\ Cardinality({i \in DOMAIN blocks : blocks[i][1] = RequestKey}) = 1
       /\ Get(Lookup(blocks, RequestKey), "color") = AskedColor
       /\ Get(Lookup(blocks, RequestKey), "type") = AskedType
       /\ Len(blocks) = Len(before.blocks)
                          + (IF Has(before.blocks, RequestKey) THEN 0 ELSE 1)
       /\ (/\ Get(Lookup(before.blocks, RequestKey), "color") = AskedColor
           /\ Get(Lookup(before.blocks, RequestKey), "type") = AskedType)
            => blocks = before.blocks

\* a place over a block of another color and type, beside a second block
C4_Witness ==
  /\ AcceptedPlace
  /\ Has(before.blocks, RequestKey)
  /\ Lookup(before.blocks, RequestKey) = Obj([color |-> BLUE, type |-> GLASS])
  /\ Lookup(blocks, RequestKey) = Obj([color |-> Str(<<"#", "8", "B", "4", "5", "1", "3">>), type |-> Str(<<"s", "t", "o", "n", "e">>)])
  /\ Len(blocks) = 2

\* C5: an accepted remove of a key that holds a block (as it does after an
\* accepted place of that key) leaves no entry for the key, and every other
\* entry is unchanged.
C5_PlaceThenRemove ==
  (AcceptedRemove /\ Has(before.blocks, RequestKey)) =>
    /\ ~Has(blocks, RequestKey)
    /\ Keys(blocks) = Keys(before.blocks) \ {RequestKey}
    /\ \A k \in Keys(blocks) : Lookup(blocks, k) = Lookup(before.blocks, k)
    /\ Len(blocks) = Len(before.blocks) - 1

\* the removal of a block that a place wrote, beside a second block
C5_Witness ==
  /\ AcceptedRemove
  /\ Lookup(before.blocks, RequestKey) = Obj([color |-> BLUE, type |-> GLASS])
  /\ ~Has(blocks, RequestKey)
  /\ Len(blocks) = 1

\* C6: a remove with valid coordinates for a key that holds no block changes
\* nothing in the block map and is no error: no error:validation on the
\* socket, a success body over HTTP.
C6_RemoveAbsentIsNoop ==
  (AcceptedRemove /\ ~Has(before.blocks, RequestKey)) =>
    /\ blocks = before.blocks
    /\ \A i \in DOMAIN emitted : emitted[i].event # "error:validation"
    /\ IsHttpBlock(REMOVE) => response = HttpResponse(200, [success |-> TRUE])

C6_Witness ==
  /\ IsSocket("block:remove")
  /\ AcceptedRemove
  /\ ~Has(before.blocks, RequestKey)
  /\ Len(blocks) = 1
  /\ blocks = before.blocks
  /\ emitted[1].event = "block:removed"

\* C7: an accepted place emits exactly one event, block:placed, to every
\* connected session, the originator included, carrying the request's
\* coordinates and the color and type stored for the key; an accepted remove
\* emits exactly one block:removed to every connected session.
C7_BlockEventsMatchStore ==
  /\ AcceptedPlace =>
       /\ Len(emitted) = 1
       /\ emitted[1].event = "block:placed"
       /\ emitted[1].to = connected
       /\ IsSocket("block:place") => request.from \in emitted[1].to
       /\ getBlockKey(emitted[1].data.x, emitted[1].data.y, emitted[1].data.z)
            = RequestKey
       /\ emitted[1].data.x = Get(request.data, "x")
       /\ emitted[1].data.y = Get(request.data, "y")
       /\ emitted[1].data.z = Get(request.data, "z")
       /\ emitted[1].data.color = Get(Lookup(blocks, RequestKey), "color")
       /\ emitted[1].data.type = Get(Lookup(blocks, RequestKey), "type")
       /\ TypeOf(emitted[1].data.color) = "string"
       /\ TypeOf(emitted[1].data.type) = "string"
  /\ AcceptedRemove =>
       /\ Len(emitted) = 1
       /\ emitted[1].event = "block:removed"
       /\ emitted[1].to = connected
       /\ emitted[1].data = [x |-> Get(request.data, "x"),
                             y |-> Get(request.data, "y"),
                             z |-> Get(request.data, "z")]

\* a place without color and type, announced to two sessions with the defaults
C7_Witness ==
  /\ IsSocket("block:place")
  /\ AcceptedPlace
  /\ Get(request.data, "color") = Undefined
  /\ Get(request.data, "type") = Undefined
  /\ Cardinality(emitted[1].to) = 2
  /\ emitted[1].data.color = Str(<<"#", "8", "B", "4", "5", "1", "3">>)
  /\ emitted[1].data.type = Str(<<"s", "t", "o", "n", "e">>)

AcceptedSpawn == IsSocket("agent:spawn") /\ spawnError(request.data) = Valid

Respawn == AcceptedSpawn /\ Has(before.agents, request.from)

\* C8: an accepted spawn from a session that already has an agent creates no
\* second entry: the agent map keeps one entry per id and the same number of
\* entries, and the entry takes the name and color the spawn supplied and
\* keeps the ones it did not supply.
C8_RespawnUpdatesInPlace ==
  /\ \A i, j \in DOMAIN agents : agents[i][1] = agents[j][1] => i = j
  /\ AcceptedSpawn =>
       Cardinality({i \in DOMAIN agents : agents[i][1] = request.from}) = 1
  /\ Respawn =>
       /\ Len(agents) = Len(before.agents)
       /\ Keys(agents) = Keys(before.agents)
       /\ Lookup(agents, request.from).name =
            (IF Truthy(Get(request.data, "name"))
               THEN Get(request.data, "name")
             ELSE Lookup(before.agents, request.from).name)
       /\ Lookup(agents, request.from).color =
            (IF Truthy(Get(request.data, "color"))
               THEN Get(request.data, "color")
             ELSE Lookup(before.agents, request.from).color)
       /\ \A k \in Keys(agents) \ {request.from} :
            Lookup(agents, k) = Lookup(before.agents, k)

\* a re-spawn that renames an agent and keeps its color, beside another agent
C8_Witness ==
  /\ Respawn
  /\ Len(agents) = 2
  /\ Lookup(before.agents, request.from).name = BOT
  /\ Lookup(agents, request.from).name = BOB
  /\ Lookup(agents, request.from).color = BLUE

\* C9: an accepted spawn from a session that already has an agent, carrying
\* an avatar, leaves that avatar in the agent's entry.
C9_RespawnUpdatesAvatar ==
  (Respawn /\ Truthy(Get(request.data, "avatar"))) =>
    Lookup(agents, request.from).avatar = Get(request.data, "avatar")

\* C10: the disconnection of a spawned session removes its entry and emits
\* exactly one agent:left for its id, to every other connected session and
\* not to the session itself.
C10_DisconnectLeaves ==
  (IsSocket("disconnect") /\ Has(before.agents, request.from)) =>
    /\ ~Has(agents, request.from)
    /\ Keys(agents) = Keys(before.agents) \ {request.from}
    /\ Len(emitted) = 1
    /\ emitted[1].event = "agent:left"
    /\ emitted[1].data.id = Str(request.from)
    /\ emitted[1].to = before.connected \ {request.from}
    /\ request.from \notin emitted[1].to
    /\ request.from \notin connected

\* a spawned session leaves while another session is connected
C10_Witness ==
  /\ IsSocket("disconnect")
  /\ Has(before.agents, request.from)
  /\ ~Has(agents, request.from)
  /\ Cardinality(emitted[1].to) = 1
  /\ emitted[1].event = "agent:left"

\* C11: the disconnection of a socket session that never had a spawn accepted
\* emits no event, agent:left least of all, and changes neither the agent
\* map nor the block map.
C11_UnspawnedDisconnectIsSilent ==
  (IsSocket("disconnect") /\ request.from \notin ledger.spawned) =>
    /\ emitted = <<>>
    /\ agents = before.agents
    /\ blocks = before.blocks
    /\ request.from \notin connected

\* an unspawned session leaves while a spawned one is connected
C11_Witness ==
  /\ IsSocket("disconnect")
  /\ request.from \notin ledger.spawned
  /\ Len(agents) = 1
  /\ Cardinality(connected) = 1
  /\ emitted = <<>>

\* the ids of all sockets that ever connected
SocketIds == connected \cup ledger.left

\* C12: in every state the keys of the agent map are the ids of the sockets
\* whose spawn was accepted and that have not disconnected, together with the
\* ids of the accepted HTTP spawns, one entry each; a connected session
\* without an accepted spawn has no entry, and neither has a disconnected one.
C12_RegistryMatchesSessions ==
  /\ Keys(agents) = (ledger.spawned \ ledger.left) \cup ledger.http
  /\ \A i, j \in DOMAIN agents : agents[i][1] = agents[j][1] => i = j
  /\ \A s \in connected \ ledger.spawned : ~Has(agents, s)
  /\ \A s \in ledger.left : ~Has(agents, s)
  /\ ledger.spawned \subseteq SocketIds

\* a spawned session has left, an unspawned one is connected, and an HTTP
\* agent is in the map
C12_Witness ==
  /\ ledger.spawned \cap ledger.left # {}
  /\ connected \ ledger.spawned # {}
  /\ ledger.http # {}
  /\ Len(agents) = 1

\* C13: the id POST /api/spawn hands out is no socket's id, and an agent it
\* created is in the agent map in every later state, whatever sockets
\* disconnect, move, chat, spawn or change blocks.
C13_HttpAgentsStay ==
  /\ ledger.http \cap SocketIds = {}
  /\ \A id \in ledger.http : Has(agents, id)

\* a spawned socket leaves and the HTTP agent created before is still there
C13_Witness ==
  /\ IsSocket("disconnect")
  /\ Has(before.agents, request.from)
  /\ \E id \in ledger.http : Has(before.agents, id) /\ Has(agents, id)

\* how many events of one kind the last handler delivered to session s
Delivered(s, event) ==
  Cardinality({i \in DOMAIN emitted :
                 emitted[i].event = event /\ s \in emitted[i].to})

\* C14: on an accepted socket spawn the spawning session receives exactly
\* one agent:joined, the confirmation, sent first and carrying its id, name,
\* color and position, and every other connected session receives exactly
\* one agent:joined for the spawn.
C14_SpawnerHearsOnce ==
  AcceptedSpawn =>
    /\ emitted[1].event = "agent:joined"
    /\ emitted[1].to = {request.from}
    /\ emitted[1].data.id = Str(request.from)
    /\ emitted[1].data.name = Lookup(agents, request.from).name
    /\ emitted[1].data.color = Lookup(agents, request.from).color
    /\ emitted[1].data.position = Lookup(agents, request.from).position
    /\ \A s \in connected \ {request.from} : Delivered(s, "agent:joined") = 1
    /\ Delivered(request.from, "agent:joined") = 1

\* C20: an accepted POST /api/spawn announces the new agent: an agent:joined
\* event for its id goes to every connected session.
C20_HttpSpawnBroadcasts ==
  (request.kind = "POST /api/spawn" /\ response.status = 200) =>
    \E i \in DOMAIN emitted :
      /\ emitted[i].event = "agent:joined"
      /\ emitted[i].to = connected
      /\ emitted[i].data.id = response.body.agent.id

AcceptedMove ==
  IsSocket("agent:move")
    /\ moveError(before.agents, request.from, request.data) = Valid

\* C15: an accepted agent:move stores the submitted position as the mover's
\* position, changing nothing else in the agent map, and emits exactly one
\* agent:moved with the mover's id and that position, to every other
\* connected session and not to the mover; a move from a session with no
\* agent is answered with the error 'Agent not found' and changes no
\* position.
C15_MoveOverwritesAndTellsOthers ==
  /\ AcceptedMove =>
       /\ Lookup(agents, request.from).position = Get(request.data, "position")
       /\ agents = Put(before.agents, request.from,
                       [Lookup(before.agents, request.from) EXCEPT
                          !.position = Get(request.data, "position")])
       /\ Keys(agents) = Keys(before.agents)
       /\ \A k \in Keys(agents) \ {request.from} :
            Lookup(agents, k) = Lookup(before.agents, k)
       /\ Len(emitted) = 1
       /\ emitted[1].event = "agent:moved"
       /\ emitted[1].to = connected \ {request.from}
       /\ emitted[1].data = [id |-> Str(request.from),
                             position |-> Get(request.data, "position")]
  /\ (IsSocket("agent:move") /\ ~Has(before.agents, request.from)) =>
       /\ agents = before.agents
       /\ OneErrorToOriginator
       /\ emitted[1].data.message = "Agent not found"

\* a spawned session moves from the spawn point while another is connected
C15_Witness ==
  /\ AcceptedMove
  /\ Lookup(before.agents, request.from).position = DEFAULT_POSITION
  /\ Lookup(agents, request.from).position = P1
  /\ Cardinality(emitted[1].to) = 1
  /\ Len(agents) = 2

AcceptedChat ==
  IsSocket("chat:message")
    /\ chatError(before.agents, request.from, request.data) = Valid

\* C16: an accepted chat message results in exactly one event, of the kind
\* chat:broadcast, which the client has a handler for, carrying from, message
\* and timestamp, to every connected session, the sender included.
C16_ChatIsBroadcast ==
  AcceptedChat =>
    /\ Len(emitted) = 1
    /\ emitted[1].event = "chat:broadcast"
    /\ emitted[1].event \in clientHandlers
    /\ emitted[1].to = connected
    /\ request.from \in emitted[1].to
    /\ DOMAIN emitted[1].data = {"from", "message", "timestamp"}
    /\ emitted[1].data.message = Get(request.data, "message")

\* C17: an origin that has sent 11 POSTs to /api/block within one window has
\* had at least one of them throttled.
C17_EleventhBlockThrottled ==
  \A i \in DOMAIN burst :
    burst[i][2].posts >= 11 => burst[i][2].throttled >= 1

\* C18: a request to a path under /api/ that is beyond the 20th of its origin
\* in the window is answered 429 and does nothing else: block map, agent map
\* and file are as before, no event is emitted, saveWorld is not called.
C18_BeyondTwentyThrottled ==
  (request.via = "http" /\ TallyOf(burst, request.from).requests > 20) =>
    /\ response.status = 429
    /\ blocks = before.blocks
    /\ agents = before.agents
    /\ worldFile = before.worldFile
    /\ emitted = <<>>
    /\ saved = 0

\* the 21st request of the window is a valid place of another color over K1
C18_Witness ==
  /\ IsHttpBlock(PLACE)
  /\ TallyOf(burst, request.from).requests = 21
  /\ validateBlockPlacement(request.data) = Valid
  /\ Get(request.data, "color") = BLUE
  /\ Get(Lookup(blocks, RequestKey), "color") = DEFAULT_BLOCK_COLOR
  /\ response.status = 429

\* C19: within a window no origin, socket session or network address, has
\* more than 10 block mutations applied or more than 20 events admitted.
C19_EveryIngressLimited ==
  \A i \in DOMAIN burst :
    burst[i][2].blocks <= 10 /\ burst[i][2].events <= 20

\* ------------------------------------------------------------------------
\* POST /api/block against the socket block events
\* ------------------------------------------------------------------------

\* the block payload of a POST /api/block body: the body without its action
BlockFields(body) == Obj([n \in DOMAIN body.f \ {"action"} |-> body.f[n]])

\* what the socket handler of the same action does with the payload of the
\* POST /api/block just handled, from the state the request found
SocketTwin ==
  IF IsHttpBlock(PLACE)
    THEN blockPlace(before.blocks, before.connected, SocketId(1),
                    BlockFields(request.data))
  ELSE blockRemove(before.blocks, before.connected, SocketId(1),
                   BlockFields(request.data))

\* what POST /api/block does with the payload of the socket block event just
\* handled, from the state the event found
HttpTwin ==
  httpBlock(before.blocks, before.connected,
            HttpBlockBody(IF IsSocket("block:place") THEN PLACE ELSE REMOVE,
                          request.data))

\* C21: a POST /api/block with action place or remove is accepted exactly
\* when the socket event with the same payload is, and a socket block event
\* exactly when the POST with the same payload is; when accepted, both leave
\* the same block map, emit the same event with the same fields to the same
\* sessions and write the same content to the file
C21_HttpBlockIsSocketBlock ==
  /\ (IsHttpBlock(PLACE) \/ IsHttpBlock(REMOVE)) =>
        /\ (response.status = 200) <=> SocketTwin.save
        /\ (response.status # 200) => response.status = 400 /\ blocks = before.blocks
        /\ blocks = SocketTwin.blocks
        /\ SocketTwin.save => emitted = SocketTwin.emitted
        /\ (saved = 1) <=> SocketTwin.save
        /\ worldFile = IF SocketTwin.save
                         THEN saveWorld(SocketTwin.blocks, before.worldFile, "ok")
                       ELSE before.worldFile
  /\ ((IsSocket("block:place") \/ IsSocket("block:remove"))
        /\ TypeOf(request.data) = "object") =>
        /\ (AcceptedPlace \/ AcceptedRemove) <=> HttpTwin.response.status = 200
        /\ blocks = HttpTwin.blocks
        /\ HttpTwin.save => emitted = HttpTwin.emitted
        /\ (saved = 1) <=> HttpTwin.save

\* a POST /api/block place is accepted, changes the block map and is
\* announced to a connected session
C21_Witness ==
  /\ IsHttpBlock(PLACE)
  /\ response.status = 200
  /\ blocks # before.blocks
  /\ connected # {}
  /\ Len(emitted) = 1 /\ emitted[1].to = connected

\* ------------------------------------------------------------------------
\* Persistence: block mutations whose write to world.json ends in each way,
\* from every kind of world.json the server may find at startup
\* ------------------------------------------------------------------------

\* a parseable world.json that is no block map: {"hello": 5}
JunkBlocks == << <<<<"h", "e", "l", "l", "o">>, Num(5)>> >>

StartupFiles ==
  {FileMissing, FileCorrupt, FileOf(LegacyBlocks), FileOf(JunkBlocks)}

PersistPlaceInputs ==
  {BlockData(K1, NoLook), BlockData(K2, <<BLUE, GLASS>>),
   BlockData(OneBadCoord, NoLook)}

PersistRemoveInputs == {Coord(K1), Coord(OneBadCoord)}

PersistPosts ==
  {HttpBlockBody(PLACE, BlockData(K2, NoLook)), HttpBlockBody(REMOVE, Coord(K2))}

InitPersist == InitWith(StartupFiles)

NextPersist ==
  \/ Connect /\ Observed
  \/ \E s \in connected, d \in PersistPlaceInputs, f \in FsResults :
       BlockPlace(s, d, f) /\ Observed
  \/ \E s \in connected, d \in PersistRemoveInputs, f \in FsResults :
       BlockRemove(s, d, f) /\ Observed
  \/ \E d \in PersistPosts, f \in FsResults :
       Spaced /\ HttpBlock(ORIGIN, d, f) /\ Observed
  \/ WindowReset(ORIGIN) /\ Unobserved

SpecPersist == InitPersist /\ [][NextPersist]_vars

\* the handler just run applied a block mutation
AppliedMutation ==
  \/ AcceptedPlace /\ (IsHttpBlock(PLACE) => response.status = 200)
  \/ AcceptedRemove /\ (IsHttpBlock(REMOVE) => response.status = 200)

\* C22: after every accepted place or remove whose write succeeds, the file
\* holds the whole in-memory block map, whatever happened to earlier writes
C22_FileHoldsWholeMap ==
  (AppliedMutation /\ written = "ok") => worldFile = FileOf(blocks)

\* a write succeeds after an earlier one failed and left the file behind the
\* block map
C22_Witness ==
  /\ AppliedMutation
  /\ written = "ok"
  /\ before.worldFile # FileOf(before.blocks)
  /\ before.worldFile # worldFile
  /\ Len(blocks) >= 2

\* the one emission of the handler just run is its block event, sent to every
\* connected session
BlockEventToAll ==
  /\ Len(emitted) = 1
  /\ emitted[1].to = connected
  /\ emitted[1].event = IF PlaceRequest THEN "block:placed" ELSE "block:removed"

\* C23: when the write of an accepted block mutation fails, the mutation
\* stays in the block map, its event still goes to every session, a POST is
\* still answered with success, and the file keeps the content it had
C23_FailedWriteKeepsFile ==
  (AppliedMutation /\ written \in FsResults \ {"ok"}) =>
    /\ blocks = IF PlaceRequest
                  THEN Put(before.blocks, RequestKey, placedBlock(request.data))
                ELSE Delete(before.blocks, RequestKey)
    /\ BlockEventToAll
    /\ request.via = "http" => response = HttpResponse(200, Success)
    /\ worldFile = before.worldFile

\* C24: the write of an accepted block mutation is deferred: when the handler
\* completes and the next ingress event can be processed, the write has not
\* ended and the file is still as the handler found it
C24_WriteIsDeferred ==
  AppliedMutation => written = "none" /\ worldFile = before.worldFile

\* ------------------------------------------------------------------------
\* Startup
\* ------------------------------------------------------------------------

\* the key of a block: three numbers separated by commas
IsBlockKey(k) ==
  /\ Len(Split(k, ",")) = 3
  /\ \A i \in 1..3 : IsFinite(StringToNumber(Split(k, ",")[i]))

\* a block descriptor: {color, type}, or as an earlier version wrote it, an
\* object with a color or a bare color string
IsBlockDescriptor(v) ==
  \/ TypeOf(v) = "string"
  \/ v.t = "object" /\ "color" \in DOMAIN v.f

\* the file is a JSON object mapping block keys to block descriptors
IsBlockMapFile(file) ==
  /\ file.state = "json"
  /\ \A i \in DOMAIN file.blocks :
       IsBlockKey(file.blocks[i][1]) /\ IsBlockDescriptor(file.blocks[i][2])

\* C25: at start the block map is the file's map when the file is a block
\* map, and empty when the file is missing or is no block map
C25_StartupSeedsOrStartsEmpty ==
  request = NoRequest =>
    blocks = IF IsBlockMapFile(worldFile) THEN worldFile.blocks ELSE <<>>

\* ------------------------------------------------------------------------
\* Block entries: places at the corners of the grid, with colors and types
\* given, omitted, empty and invalid, over a world.json of an earlier version
\* ------------------------------------------------------------------------

\* the corner x = -200, y = -50, z = 200
K3 == <<Num(-200), Num(-50), Num(200)>>

EMPTY == Str(<<>>)

LAVA == Str(<<"l", "a", "v", "a">>)

\* color and type pairs a place accepts: omitted, given, empty strings
EntryLooks == {NoLook, <<BLUE, GLASS>>, <<EMPTY, EMPTY>>}

\* coordinates just outside the grid, and off the grid in x
JustOutside ==
  {<<Num(201), Num(1), Num(0)>>, <<Num(0), Num(1), Num(-201)>>,
   <<Num(5), Num(257), Num(5)>>, <<Num(5), NumHalf(256), Num(5)>>,
   <<Num(5), Num(-51), Num(5)>>, <<NumHalf(5), Num(1), Num(5)>>}

EntryPlaceInputs ==
  {BlockData(c, look) : c \in {K1, K2, K3}, look \in EntryLooks}
    \cup {BlockData(c, NoLook) : c \in JustOutside}
    \cup {BlockData(K1, BadLook), BlockData(K1, <<BLUE, LAVA>>)}

EntryPosts ==
  {HttpBlockBody(PLACE, BlockData(K3, <<BLUE, GLASS>>)),
   HttpBlockBody(PLACE, BlockData(K1, <<BLUE, LAVA>>)),
   HttpBlockBody(REMOVE, Coord(K2))}

InitEntries == InitWith({FileMissing, FileOf(LegacyBlocks)})

NextEntries ==
  \/ Connect /\ Observed
  \/ \E s \in connected, d \in EntryPlaceInputs :
       BlockPlace(s, d, "ok") /\ Observed
  \/ \E d \in EntryPosts :
       Spaced /\ HttpBlock(ORIGIN, d, "ok") /\ Observed
  \/ WindowReset(ORIGIN) /\ Unobserved

SpecEntries == InitEntries /\ [][NextEntries]_vars

\* the handler just run applied a place
AppliedPlace == AcceptedPlace /\ (IsHttpBlock(PLACE) => response.status = 200)

\* a color of '#' and six hexadecimal digits and one of the twelve type labels
ValidDescriptor(v) ==
  /\ v.t = "object"
  /\ DOMAIN v.f = {"color", "type"}
  /\ validateColor(v.f.color) = Valid
  /\ validateBlockType(v.f.type) = Valid

\* C26 as stated: every entry of the block map, seeded from the file or
\* placed, has a '#RRGGBB' color and one of the twelve type labels
C26_EveryEntryValid ==
  \A i \in DOMAIN blocks : ValidDescriptor(blocks[i][2])

\* C26, amended: the entry a place writes has a '#RRGGBB' color and one of the
\* twelve type labels, also when the request gave none; an entry without
\* them was already in the map before the handler ran, so comes from the file
C26_PlacedEntriesValid ==
  /\ AppliedPlace => ValidDescriptor(Lookup(blocks, RequestKey))
  /\ \A i \in DOMAIN blocks :
       ~ValidDescriptor(blocks[i][2]) =>
          \E j \in DOMAIN before.blocks : before.blocks[j] = blocks[i]

\* a place with an empty color and an empty type is stored with the defaults
\* next to an entry of the file that has no type
C26_Witness ==
  /\ AppliedPlace
  /\ Get(request.data, "color") = EMPTY
  /\ Lookup(blocks, RequestKey)
       = Obj([color |-> DEFAULT_BLOCK_COLOR, type |-> DEFAULT_BLOCK_TYPE])
  /\ \E i \in DOMAIN blocks : ~ValidDescriptor(blocks[i][2])

\* the coordinates the snapshot decodes from a block key
Decoded(key) == blockRecord(<<key, Undefined>>)

\* integer x and z of absolute value at most 200 and a height from -50 to 256
OnGrid(x, y, z) ==
  /\ IsInteger(x) /\ x.v >= -MAX_COORDINATE /\ x.v <= MAX_COORDINATE
  /\ IsInteger(z) /\ z.v >= -MAX_COORDINATE /\ z.v <= MAX_COORDINATE
  /\ IsFinite(y)
  /\ y.v >= MIN_HEIGHT
  /\ IF y.half THEN y.v < MAX_HEIGHT ELSE y.v <= MAX_HEIGHT

\* the corners of the grid
Corners == {K2, K3}

\* C27: the key a place writes decodes to integer x and z of absolute value
\* at most 200 and a y from -50 to 256, and a place at the boundary values
\* with a valid color and type is accepted
C27_PlacedKeysOnGrid ==
  /\ AppliedPlace =>
        /\ Has(blocks, RequestKey)
        /\ (~Has(before.blocks, RequestKey)) => Len(blocks) = Len(before.blocks) + 1
        /\ OnGrid(Decoded(RequestKey).x, Decoded(RequestKey).y, Decoded(RequestKey).z)
  /\ (~AppliedPlace) => Keys(blocks) \subseteq Keys(before.blocks)
  /\ \A c \in Corners, look \in EntryLooks :
       (IsSocket("block:place") /\ request.data = BlockData(c, look)) =>
          AppliedPlace /\ Has(blocks, getBlockKey(c[1], c[2], c[3]))

\* both corners of the grid hold a block written by a place
C27_Witness ==
  /\ AppliedPlace
  /\ RequestKey = getBlockKey(K3[1], K3[2], K3[3])
  /\ ~Has(before.blocks, RequestKey)
  /\ Has(blocks, getBlockKey(K2[1], K2[2], K2[3]))
  /\ Decoded(RequestKey).x = Num(-200)
  /\ Decoded(RequestKey).y = Num(-50)
  /\ Decoded(RequestKey).z = Num(200)

\* C28: a place with a non-integer y never creates an entry, so every block
\* a place stores has an integer y
C28_PlacedYIsInteger ==
  (PlaceRequest /\ ~IsInteger(Get(request.data, "y"))) =>
     ~AppliedPlace /\ blocks = before.blocks

\* ------------------------------------------------------------------------
\* Agent positions: socket moves and POST /api/move at and beyond the bounds
\* ------------------------------------------------------------------------

Position(x, y, z) == Obj([x |-> x, y |-> y, z |-> z])

\* x = 500, y = 512, z = 500
P2 == Position(Num(500), Num(512), Num(500))

\* x = -500, y = -100, z = 0.5
P3 == Position(Num(-500), Num(-100), NumHalf(0))

\* positions validatePosition accepts
GoodPositions == {P2, P3}

\* positions just beyond a bound or not finite
BadPositions ==
  {Position(NumHalf(500), Num(2), Num(0)), Position(Num(0), Num(513), Num(0)),
   Position(Num(0), Num(-101), Num(0)), Position(Num(0), Infinity, Num(0))}

\* the positions POST /api/move is sent
PostedPositions ==
  {P3, Position(Num(0), Num(2), Num(-501)), Position(Num(0), NumHalf(512), Num(0))}

SocketMoves == {Obj([position |-> p]) : p \in GoodPositions \cup BadPositions}

\* POST /api/move bodies for the HTTP agent and for the first socket's agent
HttpMoves ==
  {Obj([id |-> Str(HttpId(1)), position |-> p]) : p \in PostedPositions}
    \cup {Obj([id |-> Str(SocketId(1)), position |-> P3])}

InitMoves == InitWith({FileMissing})

NextMoves ==
  \/ Connect /\ Observed
  \/ \E s \in connected :
       AgentSpawn(s, SpawnData(BOT, Undefined, Undefined)) /\ Observed
  \/ \E s \in connected, d \in SocketMoves : AgentMove(s, d) /\ Observed
  \/ Spaced /\ HttpSpawn(ORIGIN, SpawnData(BOB, Undefined, Undefined), 1)
       /\ Observed
  \/ \E d \in HttpMoves : Spaced /\ HttpMove(ORIGIN, d) /\ Observed
  \/ WindowReset(ORIGIN) /\ Unobserved

SpecMoves == InitMoves /\ [][NextMoves]_vars

\* finite coordinates with |x| and |z| at most 500 and y from -100 to 512
WithinAgentBounds(p) ==
  /\ p.t = "object"
  /\ \A n \in {"x", "y", "z"} : n \in DOMAIN p.f /\ IsFinite(p.f[n])
  /\ \A n \in {"x", "z"} :
       /\ p.f[n].v >= -agentMaxDistance
       /\ IF p.f[n].half THEN p.f[n].v < agentMaxDistance
          ELSE p.f[n].v <= agentMaxDistance
  /\ p.f.y.v >= -100
  /\ IF p.f.y.half THEN p.f.y.v < 512 ELSE p.f.y.v <= 512

\* C29: every agent of the agent map, spawned over a socket or over HTTP, has
\* a position of finite coordinates within the agent bounds: the spawn
\* position (0, 1, 0), or the position of its last accepted move
C29_AgentsWithinBounds ==
  /\ \A i \in DOMAIN agents : WithinAgentBounds(agents[i][2].position)
  /\ (AcceptedSpawn /\ ~Has(before.agents, request.from)) =>
        Lookup(agents, request.from).position = Position(Num(0), Num(1), Num(0))
  /\ (request.kind = "POST /api/spawn" /\ response.status = 200) =>
        Lookup(agents, response.body.agent.id.s).position
          = Position(Num(0), Num(1), Num(0))

\* a socket agent stands at one corner of the bounds and the HTTP agent has
\* just been moved to the opposite bound by POST /api/move
C29_Witness ==
  /\ request.kind = "POST /api/move"
  /\ response.status = 200
  /\ Has(agents, HttpId(1))
  /\ Lookup(agents, HttpId(1)).position = P3
  /\ before.agents # agents
  /\ \E s \in connected : Has(agents, s) /\ Lookup(agents, s).position = P2

\* ------------------------------------------------------------------------
\* The roster as sessions and GET /api/agents see it while agents come and go
\* ------------------------------------------------------------------------

InitRoster == InitWith({FileMissing})

NextRoster ==
  \/ Connect /\ Observed
  \/ \E s \in connected : Disconnect(s) /\ Observed
  \/ \E s \in connected :
       AgentSpawn(s, SpawnData(BOT, Undefined, Undefined)) /\ Observed
  \/ Spaced /\ HttpSpawn(ORIGIN, SpawnData(BOB, Undefined, Undefined), 1)
       /\ Observed
  \/ Spaced /\ GetAgents(ORIGIN) /\ Observed
  \/ WindowReset(ORIGIN) /\ Unobserved

SpecRoster == InitRoster /\ [][NextRoster]_vars

\* the agents whose agent:left has been emitted: the sessions that spawned
\* and have disconnected
Departed == ledger.spawned \cap ledger.left

\* no agent of the list is a departed one
NoneDeparted(list) == \A i \in DOMAIN list : list[i].id.s \notin Departed

\* C30: once agent:left has been emitted for an agent, the agent map does not
\* hold it and no world:state, world:agents or GET /api/agents answer
\* contains it
C30_DepartedStayGone ==
  /\ NoneDeparted(Values(agents))
  /\ \A i \in DOMAIN emitted :
       /\ emitted[i].event = "world:state" => NoneDeparted(emitted[i].data.agents)
       /\ emitted[i].event = "world:agents" => NoneDeparted(emitted[i].data)
  /\ (request.kind = "GET /api/agents" /\ response.status = 200) =>
        /\ response.body = Values(agents)
        /\ NoneDeparted(response.body)

\* GET /api/agents answers with the agents that remain after one has left
C30_Witness ==
  /\ request.kind = "GET /api/agents"
  /\ response.status = 200
  /\ Departed # {}
  /\ Len(response.body) >= 2

\* ------------------------------------------------------------------------
\* Calls of the pure functions: the argument is drawn at the start and the
\* call is one step that records what the function returned
\* ------------------------------------------------------------------------

\* the state before the call of a function on one of the arguments
InitCalling(function, arguments) ==
  /\ worldFile = FileMissing
  /\ blocks = <<>>
  /\ agents = <<>>
  /\ connected = {}
  /\ nextSocket = 0
  /\ \E a \in arguments : request = Request("call", function, <<>>, a)
  /\ emitted = <<>>
  /\ response = NoResponse
  /\ saved = 0
  /\ written = "none"
  /\ before = [blocks |-> <<>>, agents |-> <<>>, connected |-> {},
               worldFile |-> FileMissing]
  /\ hits = <<>>
  /\ blockHits = <<>>
  /\ ledger = NoLedger
  /\ burst = <<>>
  /\ transport = NoTransport
  /\ process = "running"

\* what a call leaves in response
Returned(value) == [status |-> 0, body |-> [returned |-> value]]

\* the call has returned
HasReturned(function) ==
  request.via = "call" /\ request.kind = function /\ response # NoResponse

\* the longest name drawn character by character
MaxNameLen == 2

\* characters of each kind: letters, a digit, the space, hyphen, underscore,
\* a punctuation mark, tab and newline
NameChars == {"a", "Z", "7", " ", "-", "_", "!", "\t", "\n"}

\* every string of up to MaxNameLen of these characters, names of 50 and of
\* 51 letters, and values that are no strings
Names ==
  {Str(s) : s \in UNION {[1..k -> NameChars] : k \in 0..MaxNameLen}}
    \cup {Str([i \in 1..50 |-> "a"]), Str([i \in 1..51 |-> "a"]),
          Undefined, Null, Num(5), Obj([name |-> BOT])}

CallValidateAgentName ==
  /\ request.via = "call" /\ request.kind = "validateAgentName"
  /\ response = NoResponse
  /\ response' = Returned(validateAgentName(request.data))
  /\ UNCHANGED <<process, blocks, agents, connected, nextSocket, worldFile, request,
                 emitted, saved, written, before, hits, blockHits, ledger, burst,
                 transport>>

InitNames == InitCalling("validateAgentName", Names)

NextNames == CallValidateAgentName

SpecNames == InitNames /\ [][NextNames]_vars

\* a string of 1 to 50 characters, each an ASCII letter, a digit, a space, a
\* hyphen or an underscore
IsPlainName(v) ==
  /\ TypeOf(v) = "string"
  /\ Len(v.s) >= 1 /\ Len(v.s) <= 50
  /\ \A i \in DOMAIN v.s :
       \/ v.s[i] \in LowerCase \cup UpperCase
       \/ IsDigit(v.s[i])
       \/ v.s[i] \in {" ", "-", "_"}

\* C34: validateAgentName accepts a value exactly when it is a string of 1
\* to 50 characters each of which is an ASCII letter, a digit, a space, a
\* hyphen or an underscore; names with '!', a tab or a newline are rejected
C34_NameAcceptedIffPlain ==
  HasReturned("validateAgentName") =>
    ((response.body.returned = Valid) <=> IsPlainName(request.data))

\* coordinate triples: the bounds, negative and fractional values, and an x
\* validateCoordinates rejects
KeyTriples ==
  {Coord(<<x, y, z>>) :
     x \in {Num(-200), Num(-5), Num(5), Num(200), Num(201)},
     y \in {Num(-50), NumHalf(-1), NumHalf(1), Num(256)},
     z \in {Num(-5), Num(0), Num(5)}}

CallGetBlockKey ==
  /\ request.via = "call" /\ request.kind = "getBlockKey"
  /\ response = NoResponse
  /\ response' = Returned([a |-> dataKey(request.data.f.a),
                           b |-> dataKey(request.data.f.b)])
  /\ UNCHANGED <<process, blocks, agents, connected, nextSocket, worldFile, request,
                 emitted, saved, written, before, hits, blockHits, ledger, burst,
                 transport>>

InitKeys ==
  InitCalling("getBlockKey",
              {Obj([a |-> a, b |-> b]) : a \in KeyTriples, b \in KeyTriples})

NextKeys == CallGetBlockKey

SpecKeys == InitKeys /\ [][NextKeys]_vars

AcceptedTriple(c) == validateCoordinates(c.f.x, c.f.y, c.f.z) = Valid

\* the key decodes, as the snapshot decodes it, to the triple
DecodesTo(key, c) ==
  /\ Decoded(key).x = c.f.x
  /\ Decoded(key).y = c.f.y
  /\ Decoded(key).z = c.f.z

\* C35: the key of an accepted triple decodes, by splitting on ',' and
\* converting to numbers, to exactly that triple, and two different accepted
\* triples never have the same key
C35_KeyInvertible ==
  HasReturned("getBlockKey") =>
    /\ AcceptedTriple(request.data.f.a) =>
         DecodesTo(response.body.returned.a, request.data.f.a)
    /\ (/\ AcceptedTriple(request.data.f.a)
        /\ AcceptedTriple(request.data.f.b)
        /\ request.data.f.a # request.data.f.b) =>
         response.body.returned.a # response.body.returned.b

\* the keys of two accepted triples that differ in the sign of x only, with a
\* negative fractional y
C35_Witness ==
  /\ HasReturned("getBlockKey")
  /\ request.data.f.a = Coord(<<Num(-5), NumHalf(-1), Num(5)>>)
  /\ request.data.f.b = Coord(<<Num(5), NumHalf(-1), Num(5)>>)
  /\ response.body.returned.a = <<"-", "5", ",", "-", "0", ".", "5", ",", "5">>
  /\ response.body.returned.b = <<"5", ",", "-", "0", ".", "5", ",", "5">>

\* C36: no socket session receives an agent:moved event that carries its own
\* session id, whether the move came over a socket or from POST /api/move
C36_NoOwnMoveEcho ==
  \A i \in DOMAIN emitted :
    emitted[i].event = "agent:moved" =>
      \A s \in emitted[i].to : emitted[i].data.id # Str(s)

\* ------------------------------------------------------------------------
\* Transport and clients: events in flight to each session, delivered one at
\* a time, and what a client makes of the events it has received
\* ------------------------------------------------------------------------

\* the most block mutations applied in the specifications with clients
MaxApplied == 3

\* delivery that hands over the event emitted last
deliver_latest(queue) ==
  [event |-> queue[Len(queue)], rest |-> SubSeq(queue, 1, Len(queue) - 1)]

\* a socket.io connection delivers the events emitted to it one at a time, in
\* the order of the emit calls
deliver(queue) == [event |-> Head(queue), rest |-> Tail(queue)]

\* the events of a handler's emissions that go to session s, in order
EventsTo(em, s) ==
  LET mine == SelectSeq(em, LAMBDA e : s \in e.to)
  IN  [i \in DOMAIN mine |-> [event |-> mine[i].event, data |-> mine[i].data]]

\* the block mutation the handler of a request applied, if any
AppliedBy(req, resp) ==
  IF \/ /\ req.via = "socket" /\ req.kind = "block:place"
        /\ validateBlockPlacement(req.data) = Valid
     \/ /\ req.kind = "POST /api/block" /\ Get(req.data, "action") = PLACE
        /\ resp.status = 200
    THEN <<[event |-> "block:placed", key |-> dataKey(req.data)]>>
  ELSE IF \/ /\ req.via = "socket" /\ req.kind = "block:remove"
             /\ validateBlockRemoval(req.data) = Valid
          \/ /\ req.kind = "POST /api/block" /\ Get(req.data, "action") = REMOVE
             /\ resp.status = 200
    THEN <<[event |-> "block:removed", key |-> dataKey(req.data)]>>
  ELSE <<>>

\* the transport once a handler has run: its mutation is noted, its
\* emissions are in flight to the connected sessions they address, a new
\* session starts with nothing received, a disconnected one is forgotten
Carried(t, req, resp, em, conn) ==
  [applied |-> t.applied \o AppliedBy(req, resp),
   since |-> [s \in conn |->
                IF s \in DOMAIN t.since THEN t.since[s] ELSE Len(t.applied)],
   inflight |-> [s \in conn |->
                   (IF s \in DOMAIN t.inflight THEN t.inflight[s] ELSE <<>>)
                     \o EventsTo(em, s)],
   got |-> [s \in conn |-> IF s \in DOMAIN t.got THEN t.got[s] ELSE <<>>]]

Transported ==
  /\ ledger' = Recorded(ledger, request', response')
  /\ transport' = Carried(transport, request', response', emitted', connected')
  /\ UNCHANGED burst

\* the client of session s receives the next event in flight to it
Deliver(s) ==
  /\ s \in DOMAIN transport.inflight
  /\ transport.inflight[s] # <<>>
  /\ \E d \in {deliver(transport.inflight[s])} :
       transport' = [transport EXCEPT !.inflight[s] = d.rest,
                                      !.got[s] = Append(@, d.event)]
  /\ UNCHANGED <<process, blocks, agents, connected, nextSocket, worldFile, request,
                 emitted, response, saved, written, before, hits, blockHits,
                 ledger, burst>>

\* the key under which a client files a block record or block event
clientKey(data) == ToStr(data.x) \o <<",">> \o ToStr(data.y) \o <<",">> \o ToStr(data.z)

\* addBlock that replaces the block already at the key
addBlock_overwrite(cb, data) ==
  Put(cb, clientKey(data), [color |-> data.color, type |-> data.type])

\* the client's addBlock(data): nothing when the key already has a block
addBlock(cb, data) ==
  IF Has(cb, clientKey(data)) THEN cb
  ELSE Put(cb, clientKey(data), [color |-> data.color, type |-> data.type])

\* the client's removeBlock(data)
removeBlock(cb, data) == Delete(cb, clientKey(data))

\* data.blocks.forEach(addBlock)
RECURSIVE addBlocks(_, _, _)
addBlocks(cb, list, n) ==
  IF n = 0 THEN cb ELSE addBlock(addBlocks(cb, list, n - 1), list[n])

\* the client's blocks Map after one received event
clientBlocksOn(cb, e) ==
  CASE e.event = "world:state" -> addBlocks(cb, e.data.blocks, Len(e.data.blocks))
    [] e.event = "block:placed" -> addBlock(cb, e.data)
    [] e.event = "block:removed" -> removeBlock(cb, e.data)
    [] OTHER -> cb

\* the client's blocks Map after the first n of the events
RECURSIVE clientBlocks(_, _)
clientBlocks(events, n) ==
  IF n = 0 THEN <<>> ELSE clientBlocksOn(clientBlocks(events, n - 1), events[n])

ReplicaPlaces == {BlockData(K1, NoLook), BlockData(K1, <<BLUE, GLASS>>)}

InitReplica == InitWith({FileOf(LegacyBlocks)})

NextReplica ==
  \/ Connect /\ Transported
  \/ \E s \in connected, d \in ReplicaPlaces :
       /\ Len(transport.applied) < MaxApplied
       /\ BlockPlace(s, d, "ok")
       /\ Transported
  \/ /\ SocketId(1) \in connected
     /\ Len(transport.applied) < MaxApplied
     /\ BlockRemove(SocketId(1), Coord(K1), "ok")
     /\ Transported
  \/ \E s \in connected : Deliver(s)

SpecReplica == InitReplica /\ [][NextReplica]_vars

\* the block events among the events, each with the key it is about
BlockEventsOf(events) ==
  LET be == SelectSeq(events,
                      LAMBDA e : e.event \in {"block:placed", "block:removed"})
  IN  [i \in DOMAIN be |-> [event |-> be[i].event, key |-> clientKey(be[i].data)]]

\* the block mutations applied since session s connected, in order
AppliedSince(s) ==
  SubSeq(transport.applied, transport.since[s] + 1, Len(transport.applied))

\* C32: the block events a session has received are, in order, the first of
\* the block mutations applied since it connected, and together with those
\* still in flight they are exactly these mutations in the order applied: a
\* session connected for mutations A and B, A applied first, receives A's
\* event before B's
C32_EventsInMutationOrder ==
  \A s \in DOMAIN transport.got :
    LET received == BlockEventsOf(transport.got[s])
    IN  /\ Len(received) <= Len(AppliedSince(s))
        /\ received = SubSeq(AppliedSince(s), 1, Len(received))
        /\ BlockEventsOf(transport.got[s] \o transport.inflight[s])
             = AppliedSince(s)
        /\ transport.got[s] # <<>> => transport.got[s][1].event = "world:state"

\* a session that connected after the first mutation has received the events
\* of the second and third while another session still waits for all three
C32_Witness ==
  \E s, o \in DOMAIN transport.got :
    /\ transport.since[s] = 1
    /\ Len(BlockEventsOf(transport.got[s])) = 2
    /\ BlockEventsOf(transport.got[s])[1].event = "block:placed"
    /\ BlockEventsOf(transport.got[s])[2].event = "block:removed"
    /\ transport.since[o] = 0
    /\ Len(BlockEventsOf(transport.inflight[o])) = 3

\* the set of a map's entries
Entries(m) == {m[i] : i \in DOMAIN m}

\* the server's block map as the snapshot reports it: key, color and type
ServerBlocks ==
  {<<blocks[i][1],
     [color |-> blockRecord(blocks[i]).color, type |-> blockRecord(blocks[i]).type]>> :
     i \in DOMAIN blocks}

\* a block map after one event: world:state gives the blocks, block:placed
\* overwrites, block:removed deletes
RECURSIVE PutAll(_, _, _)
PutAll(v, list, n) ==
  IF n = 0 THEN v
  ELSE Put(PutAll(v, list, n - 1), clientKey(list[n]),
           [color |-> list[n].color, type |-> list[n].type])

ReplayOn(v, e) ==
  CASE e.event = "world:state" -> PutAll(<<>>, e.data.blocks, Len(e.data.blocks))
    [] e.event = "block:placed" ->
         Put(v, clientKey(e.data), [color |-> e.data.color, type |-> e.data.type])
    [] e.event = "block:removed" -> Delete(v, clientKey(e.data))
    [] OTHER -> v

RECURSIVE Replay(_, _)
Replay(events, n) ==
  IF n = 0 THEN <<>> ELSE ReplayOn(Replay(events, n - 1), events[n])

C37_ClientBlocksMatchServer ==
  \A s \in DOMAIN transport.got :
    transport.inflight[s] = <<>> =>
      Entries(clientBlocks(transport.got[s], Len(transport.got[s]))) = ServerBlocks

\* the client's addAgent(data): the roster gains the id
addAgent(roster, data) == roster \cup {data.id}

\* the client's removeAgent(agentId)
removeAgent(roster, agentId) == roster \ {agentId}

\* the ids in the client's agents Map after one received event: world:state
\* adds its agents, agent:left removes one; agent:joined only sets myAgentId,
\* agent:moved moves a mesh already there, world:agents has no handler
clientAgentsOn(roster, e) ==
  CASE e.event = "world:state" ->
         roster \cup {e.data.agents[i].id : i \in DOMAIN e.data.agents}
    [] e.event = "agent:left" -> removeAgent(roster, e.data.id)
    [] OTHER -> roster

\* the ids in the client's agents Map after the first n of the events
RECURSIVE clientAgents(_, _)
clientAgents(events, n) ==
  IF n = 0 THEN {} ELSE clientAgentsOn(clientAgents(events, n - 1), events[n])

InitClients == InitWith({FileMissing})

NextClients ==
  \/ Connect /\ Transported
  \/ \E s \in connected : Disconnect(s) /\ Transported
  \/ \E s \in connected :
       /\ ~Has(agents, s)
       /\ AgentSpawn(s, SpawnData(BOT, Undefined, Undefined))
       /\ Transported
  \/ /\ Spaced
     /\ ~Has(agents, HttpId(1))
     /\ HttpSpawn(ORIGIN, SpawnData(BOB, Undefined, Undefined), 1)
     /\ Transported
  \/ WindowReset(ORIGIN) /\ Unobserved
  \/ \E s \in connected : Deliver(s)

SpecClients == InitClients /\ [][NextClients]_vars

\* C38: after the client has processed every event delivered to it, the ids
\* in its roster are the keys of the server's agent map
C38_ClientRosterMatchesServer ==
  \A s \in DOMAIN transport.got :
    transport.inflight[s] = <<>> =>
      clientAgents(transport.got[s], Len(transport.got[s]))
        = {Str(k) : k \in Keys(agents)}

\* ------------------------------------------------------------------------
\* Agent identity: spawns over sockets and over HTTP with name and color
\* supplied, omitted, empty and invalid
\* ------------------------------------------------------------------------

IdentityInputs ==
  {SpawnData(BOT, BLUE, Undefined),
   SpawnData(EMPTY, EMPTY, Undefined),
   SpawnData(Str(<<"B", "o", "t", "!">>), BLUE, Undefined),
   SpawnData(BOT, Str(<<"b", "l", "u", "e">>), Undefined)}

HttpIdentityInputs ==
  {SpawnData(Undefined, Undefined, Undefined),
   SpawnData(EMPTY, EMPTY, Undefined),
   SpawnData(Num(5), BLUE, Undefined)}

InitIdentity == InitWith({FileMissing})

NextIdentity ==
  \/ Connect /\ Observed
  \/ \E s \in connected : Disconnect(s) /\ Observed
  \/ \E s \in connected, d \in IdentityInputs : AgentSpawn(s, d) /\ Observed
  \/ \E d \in HttpIdentityInputs :
       Spaced /\ HttpSpawn(ORIGIN, d, 1) /\ Observed
  \/ WindowReset(ORIGIN) /\ Unobserved

SpecIdentity == InitIdentity /\ [][NextIdentity]_vars

\* the spawn just handled created an agent
CreatedAgent ==
  \/ AcceptedSpawn /\ ~Has(before.agents, request.from)
  \/ request.kind = "POST /api/spawn" /\ response.status = 200

CreatedId ==
  IF request.via = "socket" THEN request.from ELSE response.body.agent.id.s

\* C39: every agent of the agent map has an id field equal to its key, a
\* name validateAgentName accepts and a color validateColor accepts; an agent
\* created without a name or color, or with empty ones, has the defaults
C39_AgentsWellFormed ==
  /\ \A i \in DOMAIN agents :
       /\ agents[i][2].id = Str(agents[i][1])
       /\ validateAgentName(agents[i][2].name) = Valid
       /\ validateColor(agents[i][2].color) = Valid
  /\ CreatedAgent =>
       /\ Lookup(agents, CreatedId).name
            = IF Truthy(Get(request.data, "name")) THEN Get(request.data, "name")
              ELSE Str(<<"U", "n", "k", "n", "o", "w", "n">>)
       /\ Lookup(agents, CreatedId).color
            = IF Truthy(Get(request.data, "color")) THEN Get(request.data, "color")
              ELSE Str(<<"#", "f", "f", "6", "6", "0", "0">>)

\* an HTTP agent created with an empty name and color stands next to a
\* socket agent created with both given
C39_Witness ==
  /\ request.kind = "POST /api/spawn"
  /\ response.status = 200
  /\ Get(request.data, "name") = EMPTY
  /\ Lookup(agents, HttpId(1)).name = DEFAULT_AGENT_NAME
  /\ Lookup(agents, HttpId(1)).color = DEFAULT_AGENT_COLOR
  /\ \E s \in connected :
       Has(agents, s) /\ Lookup(agents, s).name = BOT /\ Lookup(agents, s).color = BLUE

\* ------------------------------------------------------------------------
\* Ingress under hostile input: every socket event, connection, disconnect
\* and HTTP request, with payloads that are missing, null, wrong-typed or out
\* of range, on a block map loaded from a world.json that holds whatever
\* parses
\* ------------------------------------------------------------------------

\* a parseable world.json with a null entry: {"5,1.5,-3": null}
NullBlocks == << <<getBlockKey(K1[1], K1[2], K1[3]), Null>> >>

IngressFiles == {FileOf(LegacyBlocks), FileOf(NullBlocks)}

\* payloads of socket events: missing, null, a number, a block out of range,
\* and one that agent:spawn accepts
IngressPayloads ==
  {Undefined, Null, Num(5), BlockData(OneBadCoord, NoLook),
   SpawnData(BOT, BLUE, Undefined)}

\* request bodies: fields that are null, fields of the wrong type
IngressBodies ==
  {Obj([name |-> Null, id |-> Null, position |-> Null, action |-> Null]),
   Obj([name |-> Num(5), id |-> Num(5), position |-> Num(5), action |-> Num(5)])}

InitIngress == InitWith(IngressFiles)

NextIngress ==
  \/ Connect /\ Observed
  \/ \E s \in connected : Disconnect(s) /\ Observed
  \/ \E s \in connected, d \in IngressPayloads : AgentSpawn(s, d) /\ Observed
  \/ \E s \in connected, d \in IngressPayloads : AgentMove(s, d) /\ Observed
  \/ \E s \in connected, d \in IngressPayloads : ChatMessage(s, d) /\ Observed
  \/ \E s \in connected, d \in IngressPayloads :
       BlockPlace(s, d, "ok") /\ Observed
  \/ \E s \in connected, d \in IngressPayloads :
       BlockRemove(s, d, "ok") /\ Observed
  \/ \E d \in IngressBodies : Spaced /\ HttpSpawn(ORIGIN, d, 1) /\ Observed
  \/ \E d \in IngressBodies : Spaced /\ HttpMove(ORIGIN, d) /\ Observed
  \/ \E d \in IngressBodies : Spaced /\ HttpBlock(ORIGIN, d, "ok") /\ Observed
  \/ Spaced /\ GetAgents(ORIGIN) /\ Observed
  \/ WindowReset(ORIGIN) /\ Unobserved

SpecIngress == InitIngress /\ [][NextIngress]_vars

\* the handler just run emitted error:validation to the socket it ran for, or
\* answered the request with an error status
EndedInError ==
  IF request.via = "http"
    THEN response.status \in 400..599
  ELSE \E i \in DOMAIN emitted :
         /\ emitted[i].event = "error:validation"
         /\ emitted[i].to = {request.from}

\* the handler just run ran to its end without an error: the connection
\* handler sent world:state to the new socket, a route answered 200
EndedAccepted ==
  CASE request.kind = "connection" ->
         \E i \in DOMAIN emitted :
           /\ emitted[i].event = "world:state"
           /\ emitted[i].to = {request.from}
    [] request.via = "http" -> response.status = 200
    [] OTHER ->
         \A i \in DOMAIN emitted : emitted[i].event # "error:validation"

\* C31: no ingress event terminates the process: whatever the payload and
\* whatever the loaded block map, the handler of every socket event,
\* connection, disconnect and HTTP request ends accepted or with an error
\* response to its originator, and the server goes on handling events
C31_NoIngressTerminates ==
  request.via # "none" => /\ EndedAccepted \/ EndedInError
                          /\ Running

=============================================================================
